---- MODULE Spec2Model ----
(***************************************************************************)
(* eaappreciate: the accomplishment submission-and-enrichment pipeline.     *)
(*                                                                         *)
(* Texts are sequences of atoms.  An atom is a one-character string, or a   *)
(* multi-character string that stands for a run of non-whitespace          *)
(* characters (a placeholder "{{name}}", an enum value such as "customer"). *)
(* Whitespace is always spelled character by character, so splitting,       *)
(* trimming and word counting act on the atoms as the JavaScript built-ins  *)
(* act on the characters.                                                   *)
(*                                                                         *)
(* Seven specifications share the variables:                                *)
(*   SpecPrompt  the prompt builder of the orchestrator (loadPrompts,       *)
(*               buildPrompt, validatePromptVariables) over the template   *)
(*               store loaded from a prompts directory;                    *)
(*   SpecApi     the three POST endpoints of index.js with the              *)
(*               orchestrator, the LLM backend and the database behind      *)
(*               them;                                                      *)
(*   SpecCounters  the congratulate and vote endpoints with the feed in     *)
(*               front and the read and generation endpoints beside them,   *)
(*               over two stored records;                                   *)
(*   SpecLlm     generations calling the LLM service side by side, each     *)
(*               with its token request and its completion request;         *)
(*   SpecConnection  the database connection of hana-connection.js under    *)
(*               the API requests that use it;                              *)
(*   SpecForm    the submit page (submit.js) talking to those endpoints;    *)
(*   SpecPreview the same page from the preview of a generated statement    *)
(*               on.                                                        *)
(***************************************************************************)
EXTENDS Integers, Sequences, FiniteSets, Bags, TLC

VARIABLES
    prompts,        \* AIOrchestrator.prompts: template name -> template
    built,          \* outcome of the last buildPrompt call
    validation,     \* outcome of the last validatePromptVariables call
    promptCall,     \* the arguments of the last prompt-builder call
    promptsDir,     \* the files of the prompts directory, in readdirSync order
    db,             \* the rows of the ACCOMPLISHMENTS table, in insertion order
    now,            \* Date.now() on the server, in milliseconds
    api,            \* the last request an endpoint answered, with its answer
    toggles,        \* the congratulate and vote requests the server is handling
    llm,            \* the callSAPAI calls of the orchestrator, each with its requests
    hana,           \* HanaConnection and DBServer: the connection and its users
    display,        \* which of basic-fields, dynamic-fields, preview-fields show
    fields,         \* the values of the three basic inputs of the form
    contextualQuestions,    \* the labels in contextual-questions-container
    answers,        \* the values of the textareas under those labels
    currentPreviewData, \* window.currentPreviewData
    disabled,       \* the disabled flag of each request-issuing control
    pending,        \* per control, its handler invocations waiting on a fetch
    submissionResult,   \* the submission-result element
    handled,        \* the control and outcome of a fetch that has just settled
    issued          \* how many fetches the handlers have started so far

promptVars == <<prompts, built, validation, promptCall, promptsDir>>
apiVars == <<db, now, api, toggles, llm, hana>>
formVars == <<display, fields, contextualQuestions, answers, currentPreviewData,
              disabled, pending, submissionResult, handled, issued>>
vars == <<promptVars, apiVars, formVars>>

-----------------------------------------------------------------------------
(* JavaScript string built-ins, on texts                                    *)

IsSpace(c) == c \in {" ", "\n", "\t"}

\* s repeated n times
Rep(s, n) ==
    IF n <= 0 THEN <<>>
    ELSE [i \in 1..(n * Len(s)) |-> s[((i - 1) % Len(s)) + 1]]

\* the concatenation of a list of texts
RECURSIVE Flatten(_)
Flatten(ss) ==
    IF Len(ss) = 0 THEN <<>>
    ELSE IF Len(ss) = 1 THEN ss[1]
    ELSE LET m == Len(ss) \div 2
         IN  Flatten(SubSeq(ss, 1, m)) \o Flatten(SubSeq(ss, m + 1, Len(ss)))

\* String.prototype.trim
Trim(s) ==
    LET IsKept(i) == ~IsSpace(s[i])
        keep == SelectSeq([i \in 1..Len(s) |-> i], IsKept)
    IN  IF keep = <<>> THEN <<>> ELSE SubSeq(s, keep[1], keep[Len(keep)])

\* String.prototype.split(sep) for a one-atom separator: one token between
\* every two separators, empty tokens included; the empty text gives one
\* empty token.
SplitAt(s, sep) ==
    LET IsSep(i) == s[i] = sep
        at == SelectSeq([i \in 1..Len(s) |-> i], IsSep)
    IN  [k \in 1..(Len(at) + 1) |->
            SubSeq(s, IF k = 1 THEN 1 ELSE at[k - 1] + 1,
                      IF k = Len(at) + 1 THEN Len(s) ELSE at[k] - 1)]

SplitSpace(s) == SplitAt(s, " ")

\* String.prototype.split(/\s+/): a maximal run of whitespace separates, so
\* leading or trailing whitespace gives an empty first or last token.
SplitWhitespace(s) ==
    LET Starts(i) == ~IsSpace(s[i]) /\ (i = 1 \/ IsSpace(s[i - 1]))
        Ends(i) == ~IsSpace(s[i]) /\ (i = Len(s) \/ IsSpace(s[i + 1]))
        from == SelectSeq([i \in 1..Len(s) |-> i], Starts)
        to == SelectSeq([i \in 1..Len(s) |-> i], Ends)
    IN  IF s = <<>> THEN << <<>> >>
        ELSE (IF IsSpace(s[1]) THEN << <<>> >> ELSE <<>>)
             \o [k \in 1..Len(from) |-> SubSeq(s, from[k], to[k])]
             \o (IF IsSpace(s[Len(s)]) /\ from # <<>> THEN << <<>> >> ELSE <<>>)

\* Array.prototype.join(sep)
RECURSIVE Join(_, _)
Join(tokens, sep) ==
    IF Len(tokens) = 0 THEN <<>>
    ELSE IF Len(tokens) = 1 THEN tokens[1]
    ELSE LET m == Len(tokens) \div 2
         IN  Join(SubSeq(tokens, 1, m), sep) \o sep
             \o Join(SubSeq(tokens, m + 1, Len(tokens)), sep)

\* n one-letter words separated by single spaces
Words(n) == IF n <= 0 THEN <<>> ELSE <<"w">> \o Rep(<<" ", "w">>, n - 1)

\* The number of whitespace-separated words of a text (the measure the word
\* limits are stated in).
WordCount(s) ==
    Cardinality({i \in 1..Len(s) : ~IsSpace(s[i]) /\ (i = 1 \/ IsSpace(s[i - 1]))})

-----------------------------------------------------------------------------
(* JavaScript values that may be undefined or null                          *)

JUndefined == [t |-> "undefined", v |-> <<>>]
JNull == [t |-> "null", v |-> <<>>]
JStr(s) == [t |-> "string", v |-> s]

\* value === undefined || value === null || value === ''
IsMissing(x) == x.t \in {"undefined", "null"} \/ x.v = <<>>

\* Truthiness of a string-or-missing value: only a non-empty string is truthy.
Truthy(x) == ~IsMissing(x)

-----------------------------------------------------------------------------
(* Prompt templates                                                         *)

\* a file of the prompts directory: its base name, its extension and what
\* JSON.parse makes of its content
PromptFile(name, ext, content) == [name |-> name, ext |-> ext, content |-> content]
Unparseable == [parses |-> FALSE]
Parsed(value) == [parses |-> TRUE, value |-> value]

\* promptFiles.forEach: this.prompts once the files from the i-th on are read,
\* or the exception JSON.parse throws on the way
RECURSIVE ReadPromptFiles(_, _, _)
ReadPromptFiles(promptFiles, i, store) ==
    IF i > Len(promptFiles) THEN [raised |-> FALSE, value |-> store]
    ELSE IF ~promptFiles[i].content.parses
    THEN [raised |-> TRUE, value |-> store]
    ELSE ReadPromptFiles(promptFiles, i + 1,
            [name \in DOMAIN store \cup {promptFiles[i].name} |->
                IF name = promptFiles[i].name
                THEN promptFiles[i].content.value
                ELSE store[name]])

\* AIOrchestrator.loadPrompts: this.prompts afterwards
loadPrompts(directory) ==
    LET promptFiles == SelectSeq(directory, LAMBDA file : file.ext = ".json")
        read == ReadPromptFiles(promptFiles, 1, <<>>)
    IN  IF read.raised THEN <<>> ELSE read.value

Placeholder(name) == "{{" \o name \o "}}"

\* variables[key] of a variable map given as a function on the keys it holds
Lookup(variables, key) ==
    IF key \in DOMAIN variables THEN variables[key] ELSE JUndefined

\* varConfig.default || (varConfig.required ? '' : 'Not specified')
DefaultValue(varConfig) ==
    IF Truthy(varConfig.default) THEN varConfig.default.v
    ELSE IF varConfig.required THEN <<>>
    ELSE <<"Not", " ", "specified">>

\* a faulty resolution that falls back only when no value is supplied at all,
\* and so keeps a supplied empty string
ResolveVariableKeepingEmptyValues(varConfig, variables) ==
    LET value == Lookup(variables, varConfig.key)
    IN  IF value.t \in {"undefined", "null"} THEN DefaultValue(varConfig)
        ELSE value.v

\* the value buildPrompt puts in processedVars for one declared variable
ResolveVariable(varConfig, variables) ==
    LET value == Lookup(variables, varConfig.key)
    IN  IF IsMissing(value) THEN DefaultValue(varConfig) ELSE value.v

\* processedVars, in the order Object.keys lists the declared variables
ProcessedVars(template, variables) ==
    [i \in 1..Len(template.variables) |->
        [key |-> template.variables[i].key,
         value |-> ResolveVariable(template.variables[i], variables)]]

\* The replacement string of String.prototype.replace: "$&" inserts the match.
ExpandReplacement(value, matched) ==
    [i \in 1..Len(value) |-> IF value[i] = "$&" THEN matched ELSE value[i]]

\* context.replace(new RegExp(`{{key}}`, 'g'), value)
ReplaceAll(context, key, value) ==
    Flatten([i \in 1..Len(context) |->
        IF context[i] = Placeholder(key)
        THEN ExpandReplacement(value, Placeholder(key))
        ELSE <<context[i]>>])

\* the forEach over processedVars: one global replace per key, in order
RECURSIVE SubstituteFrom(_, _, _)
SubstituteFrom(context, processed, i) ==
    IF i > Len(processed) THEN context
    ELSE SubstituteFrom(ReplaceAll(context, processed[i].key, processed[i].value),
                        processed, i + 1)

Raised(message) == [raised |-> TRUE, value |-> message]
Returned(value) == [raised |-> FALSE, value |-> value]

\* a faulty buildPrompt that returns task and format exchanged
buildPromptSwappingTaskAndFormat(store, promptId, variables) ==
    IF promptId \notin DOMAIN store THEN Raised("Prompt template not found")
    ELSE LET t == store[promptId]
         IN  Returned([system |-> t.system,
                       context |-> Trim(SubstituteFrom(t.contextTemplate,
                                            ProcessedVars(t, variables), 1)),
                       task |-> t.format,
                       format |-> t.task])

\* AIOrchestrator.buildPrompt
buildPrompt(store, promptId, variables) ==
    IF promptId \notin DOMAIN store THEN Raised("Prompt template not found")
    ELSE LET t == store[promptId]
         IN  Returned([system |-> t.system,
                       context |-> Trim(SubstituteFrom(t.contextTemplate,
                                            ProcessedVars(t, variables), 1)),
                       task |-> t.task,
                       format |-> t.format])

\* the errors validatePromptVariables pushes, in declaration order
RECURSIVE ValidationErrorsFrom(_, _, _)
ValidationErrorsFrom(decls, variables, i) ==
    IF i > Len(decls) THEN <<>>
    ELSE (IF decls[i].required /\ IsMissing(Lookup(variables, decls[i].key))
          THEN <<[missing |-> decls[i].key]>> ELSE <<>>)
         \o ValidationErrorsFrom(decls, variables, i + 1)

\* a faulty validatePromptVariables that reports only the first missing variable
validatePromptVariablesFirstErrorOnly(store, promptId, variables) ==
    IF promptId \notin DOMAIN store
    THEN [valid |-> FALSE, errors |-> <<[missing |-> "template"]>>]
    ELSE LET errors == ValidationErrorsFrom(store[promptId].variables, variables, 1)
         IN  [valid |-> errors = <<>>,
              errors |-> IF errors = <<>> THEN <<>> ELSE <<errors[1]>>]

\* AIOrchestrator.validatePromptVariables
validatePromptVariables(store, promptId, variables) ==
    IF promptId \notin DOMAIN store
    THEN [valid |-> FALSE, errors |-> <<[missing |-> "template"]>>]
    ELSE LET errors == ValidationErrorsFrom(store[promptId].variables, variables, 1)
         IN  [valid |-> errors = <<>>, errors |-> errors]

-----------------------------------------------------------------------------
(* The LLM backend and the orchestrator's generation operations             *)

MaxStatementWords == 100
KeptStatementWords == 97
MaxQuoteLength == 80
KeptQuoteLength == 77
MinQuestions == 3
MaxQuestions == 5

\* JSON.parse of a text; the grammar covers arrays of scalars, the empty
\* object and scalars, which is what decides the shape test that follows it.
JsonScalar(p) ==
    IF Len(p) >= 2 /\ p[1] = "\"" /\ p[Len(p)] = "\""
          /\ \A i \in 2..(Len(p) - 1) : p[i] # "\""
    THEN Returned(JStr(SubSeq(p, 2, Len(p) - 1)))
    ELSE IF p = <<"null">> THEN Returned(JNull)
    ELSE IF Len(p) = 1 /\ p[1] \in {"0", "1", "2", "3", "42"}
    THEN Returned([t |-> "number", v |-> p])
    ELSE Raised("SyntaxError")

JsonParse(text) ==
    LET t == Trim(text)
    IN  IF t = <<>> THEN Raised("SyntaxError")
        ELSE IF t = <<"{", "}">> THEN Returned([t |-> "object", items |-> <<>>])
        ELSE IF Len(t) >= 2 /\ t[1] = "[" /\ t[Len(t)] = "]"
        THEN LET inner == Trim(SubSeq(t, 2, Len(t) - 1))
                 pieces == SplitAt(inner, ",")
                 parsed == [i \in 1..Len(pieces) |-> JsonScalar(Trim(pieces[i]))]
             IN  IF inner = <<>> THEN Returned([t |-> "array", items |-> <<>>])
                 ELSE IF \E i \in 1..Len(parsed) : parsed[i].raised
                 THEN Raised("SyntaxError")
                 ELSE Returned([t |-> "array",
                                items |-> [i \in 1..Len(parsed) |-> parsed[i].value]])
        ELSE LET scalar == JsonScalar(t)
             IN  IF scalar.raised THEN scalar
                 ELSE Returned([t |-> "scalar", items |-> <<scalar.value>>])

\* the chat-completion request body of callSAPAI
\* a faulty request body: the parts of the user message joined by single
\* newlines
CompletionRequestJoinedByNewlines(prompt) ==
    [kind |-> "completion",
     messages |-> <<[role |-> "system", content |-> prompt.system \o <<"\n", "\n">>],
                    [role |-> "user",
                     content |-> prompt.context \o <<"\n">> \o prompt.task
                                 \o <<"\n">> \o prompt.format]>>,
     temperature |-> "0.82"]

CompletionRequest(prompt) ==
    [kind |-> "completion",
     messages |-> <<[role |-> "system", content |-> prompt.system \o <<"\n", "\n">>],
                    [role |-> "user",
                     content |-> prompt.context \o <<"\n", "\n">> \o prompt.task
                                 \o <<"\n", "\n">> \o prompt.format]>>,
     temperature |-> "0.82"]

TokenRequest == [kind |-> "token"]

\* AIOrchestrator.callSAPAI with getAICoreAccessToken inlined.  backend says
\* how the two HTTP exchanges end; requests lists the exchanges started.
callSAPAI(prompt, backend) ==
    IF ~backend.tokenOk
    THEN [raised |-> TRUE, value |-> "token request failed",
          requests |-> <<TokenRequest>>]
    ELSE IF ~backend.completionOk
    THEN [raised |-> TRUE, value |-> "completion request failed",
          requests |-> <<TokenRequest, CompletionRequest(prompt)>>]
    ELSE [raised |-> FALSE, value |-> [json |-> FALSE, response |-> backend.content],
          requests |-> <<TokenRequest, CompletionRequest(prompt)>>]

genericQuestions ==
    <<JStr(<<"What", " ", "specific", " ", "challenges", " ", "did", " ", "you",
            " ", "overcome", " ", "to", " ", "achieve", " ", "this?">>),
      JStr(<<"How", " ", "long", " ", "did", " ", "this", " ", "accomplishment",
            " ", "take", " ", "to", " ", "complete?">>),
      JStr(<<"What", " ", "was", " ", "the", " ", "measurable", " ", "impact",
            " ", "or", " ", "outcome", " ", "of", " ", "your", " ", "work?">>),
      JStr(<<"Who", " ", "were", " ", "the", " ", "key", " ", "stakeholders", " ",
            "who", " ", "benefited", " ", "from", " ", "this", " ",
            "accomplishment?">>),
      JStr(<<"What", " ", "skills", " ", "or", " ", "expertise", " ", "did", " ",
            "you", " ", "demonstrate", " ", "in", " ", "completing", " ", "this",
            " ", "work?">>)>>

customerQuestions ==
    <<JStr(<<"What", " ", "specific", " ", "problem", " ", "was", " ", "the", " ",
            "customer", " ", "experiencing?">>),
      JStr(<<"How", " ", "did", " ", "your", " ", "solution", " ", "impact", " ",
            "the", " ", "customer's", " ", "business", " ", "operations?">>),
      JStr(<<"What", " ", "technical", " ", "approaches", " ", "or", " ", "tools",
            " ", "did", " ", "you", " ", "use?">>),
      JStr(<<"How", " ", "quickly", " ", "were", " ", "you", " ", "able", " ",
            "to", " ", "resolve", " ", "the", " ", "customer's", " ", "issue?">>),
      JStr(<<"What", " ", "feedback", " ", "did", " ", "you", " ", "receive", " ",
            "from", " ", "the", " ", "customer", " ", "about", " ", "your", " ",
            "work?">>)>>

teamQuestions ==
    <<JStr(<<"How", " ", "did", " ", "this", " ", "accomplishment", " ",
            "benefit", " ", "your", " ", "team", " ", "or", " ", "organization?">>),
      JStr(<<"What", " ", "collaboration", " ", "or", " ", "leadership", " ",
            "skills", " ", "did", " ", "you", " ", "demonstrate?">>),
      JStr(<<"What", " ", "was", " ", "the", " ", "scope", " ", "or", " ",
            "scale", " ", "of", " ", "your", " ", "contribution?">>),
      JStr(<<"How", " ", "did", " ", "this", " ", "work", " ", "improve", " ",
            "team", " ", "processes", " ", "or", " ", "efficiency?">>),
      JStr(<<"What", " ", "knowledge", " ", "or", " ", "skills", " ", "did", " ",
            "you", " ", "share", " ", "with", " ", "colleagues", " ", "during",
            " ", "this", " ", "work?">>)>>

CustomerAppreciationLead ==
    <<" ", "The", " ", "customer", " ", "expressed", " ", "appreciation,",
      " ", "stating", " ">>

CustomerClosing ==
    <<" ", "This", " ", "effort", " ", "had", " ", "direct", " ",
      "customer", " ", "impact", " ", "and", " ", "demonstrated", " ",
      "strong", " ", "problem-solving", " ", "capabilities.">>

TeamRecognition ==
    <<" ", "This", " ", "effort", " ", "was", " ", "recognized", " ", "by",
      " ", "colleagues.">>

TeamClosing ==
    <<" ", "This", " ", "initiative", " ", "had", " ", "positive", " ",
      "team", " ", "impact", " ", "and", " ", "contributed", " ", "to",
      " ", "collective", " ", "success.">>

\* a faulty generateMockQuestions that takes the generic questions whatever
\* the impact type
generateMockQuestionsFromGenericPool(basicData, order, count) ==
    SubSeq([i \in 1..Len(genericQuestions) |-> genericQuestions[order[i]]], 1, count)

\* AIOrchestrator.generateMockQuestions; order is the permutation the random
\* comparator sort leaves, count the outcome of Math.random() < 0.5 ? 3 : 4
generateMockQuestions(basicData, order, count) ==
    LET questions == IF basicData.impactType = JStr(<<"customer">>) THEN customerQuestions
                     ELSE IF basicData.impactType = JStr(<<"team">>) THEN teamQuestions
                     ELSE genericQuestions
        shuffled == [i \in 1..Len(questions) |-> questions[order[i]]]
    IN  SubSeq(shuffled, 1, count)

\* x || fallback, for a string-or-missing x
OrElse(x, fallback) == IF Truthy(x) THEN x ELSE JStr(fallback)

\* the shape test of generateContextualQuestions on the parsed answer
IsQuestionArray(parsed) ==
    /\ parsed.t = "array"
    /\ Len(parsed.items) >= MinQuestions
    /\ Len(parsed.items) <= MaxQuestions

\* a faulty generateContextualQuestions that skips the length test on the parsed answer
generateContextualQuestionsTrustingTheModel(store, basicData, backend, order, count) ==
    LET variables == [originalStatement |-> basicData.originalStatement,
                      impactType |-> OrElse(basicData.impactType, <<"Not", " ", "specified">>),
                      emailAppreciation |->
                          OrElse(basicData.emailAppreciation, <<"None", " ", "provided">>)]
        prompt == buildPrompt(store, "contextual-questions-generation", variables)
        result == callSAPAI(prompt.value, backend)
        requests == IF prompt.raised THEN <<>> ELSE result.requests
        parsed == JsonParse(result.value.response)
    IN  IF ~prompt.raised /\ ~result.raised /\ result.value.response # <<>>
           /\ ~parsed.raised /\ parsed.value.t = "array"
        THEN [raised |-> FALSE, value |-> parsed.value.items, path |-> "llm",
              requests |-> requests]
        ELSE [raised |-> FALSE, value |-> generateMockQuestions(basicData, order, count),
              path |-> "fallback", requests |-> requests]

\* AIOrchestrator.generateContextualQuestions
generateContextualQuestions(store, basicData, backend, order, count) ==
    LET variables == [originalStatement |-> basicData.originalStatement,
                      impactType |-> OrElse(basicData.impactType, <<"Not", " ", "specified">>),
                      emailAppreciation |->
                          OrElse(basicData.emailAppreciation, <<"None", " ", "provided">>)]
        prompt == buildPrompt(store, "contextual-questions-generation", variables)
        result == callSAPAI(prompt.value, backend)
        requests == IF prompt.raised THEN <<>> ELSE result.requests
        parsed == JsonParse(result.value.response)
    IN  IF ~prompt.raised /\ ~result.raised /\ result.value.response # <<>>
           /\ ~parsed.raised /\ IsQuestionArray(parsed.value)
        THEN [raised |-> FALSE, value |-> parsed.value.items, path |-> "llm",
              requests |-> requests]
        ELSE [raised |-> FALSE, value |-> generateMockQuestions(basicData, order, count),
              path |-> "fallback", requests |-> requests]

\* String.prototype.toLowerCase, on the capitalised atoms the inputs use
LowerAtom(c) ==
    CASE c = "Today" -> "today" [] c = "I" -> "i" [] c = "W" -> "w" [] c = "Fixed" -> "fixed"
      [] OTHER -> c

ToLowerCase(s) == [i \in 1..Len(s) |-> LowerAtom(s[i])]

\* s.replace(/^(today )?i /i, '')
StripLeadingI(s) ==
    IF Len(s) >= 4 /\ LowerAtom(s[1]) = "today" /\ s[2] = " "
          /\ LowerAtom(s[3]) = "i" /\ s[4] = " "
    THEN SubSeq(s, 5, Len(s))
    ELSE IF Len(s) >= 2 /\ LowerAtom(s[1]) = "i" /\ s[2] = " "
    THEN SubSeq(s, 3, Len(s))
    ELSE s

\* the customer template of generateMockResponse
CustomerStatement(name, statement, appreciation, details) ==
    LET quote == IF Len(appreciation) > MaxQuoteLength
                 THEN SubSeq(appreciation, 1, KeptQuoteLength) \o <<".", ".", ".">>
                 ELSE appreciation
    IN  name \o <<" ">> \o StripLeadingI(ToLowerCase(statement))
        \o (IF details # <<>> THEN <<".", " ">> \o details ELSE <<>>)
        \o (IF appreciation # <<>>
            THEN CustomerAppreciationLead \o <<"\"">> \o quote \o <<"\"">> ELSE <<>>)
        \o CustomerClosing

\* the team template of generateMockResponse
TeamStatement(name, statement, appreciation, details) ==
    name \o <<" ">> \o StripLeadingI(ToLowerCase(statement))
    \o (IF details # <<>> THEN <<".", " ">> \o details ELSE <<>>)
    \o (IF appreciation # <<>> THEN TeamRecognition ELSE <<>>)
    \o TeamClosing

\* "Ensure under 100 words" at the end of generateMockResponse
LimitWords(statement) ==
    LET words == SplitSpace(statement)
    IN  IF Len(words) > MaxStatementWords
        THEN Join(SubSeq(words, 1, KeptStatementWords), <<" ">>) \o <<".", ".", ".">>
        ELSE statement

\* AIOrchestrator.generateMockResponse
generateMockResponse(data) ==
    LET impactType == IF data.responses.impactType # <<>>
                      THEN data.responses.impactType ELSE <<"team">>
        statement == IF impactType = <<"customer">>
                     THEN CustomerStatement(data.userName, data.originalStatement,
                              data.responses.emailAppreciation,
                              data.responses.additionalDetails)
                     ELSE TeamStatement(data.userName, data.originalStatement,
                              data.responses.emailAppreciation,
                              data.responses.additionalDetails)
    IN  LimitWords(statement)

\* AIOrchestrator.buildSAPAIPrompt
buildSAPAIPrompt(store, data) ==
    buildPrompt(store, "accomplishment-generation",
        [originalStatement |-> JStr(data.originalStatement),
         userName |-> JStr(data.userName),
         emailAppreciation |-> JStr(data.responses.emailAppreciation),
         impactType |-> JStr(data.responses.impactType),
         additionalDetails |-> JStr(data.responses.additionalDetails)])

\* a faulty generateAccomplishmentStatement that cuts the completion text
\* to the word limit of the fallback
generateAccomplishmentStatementLimitingWords(store, data, backend) ==
    LET prompt == buildSAPAIPrompt(store, data)
        result == callSAPAI(prompt.value, backend)
        requests == IF prompt.raised THEN <<>> ELSE result.requests
    IN  IF ~prompt.raised /\ ~result.raised /\ result.value.response # <<>>
        THEN [raised |-> FALSE, value |-> LimitWords(result.value.response),
              path |-> "llm", requests |-> requests]
        ELSE [raised |-> FALSE, value |-> generateMockResponse(data),
              path |-> "fallback", requests |-> requests]

\* a faulty generateAccomplishmentStatement that lets a failure propagate
generateAccomplishmentStatementWithoutFallback(store, data, backend) ==
    LET prompt == buildSAPAIPrompt(store, data)
        result == callSAPAI(prompt.value, backend)
        requests == IF prompt.raised THEN <<>> ELSE result.requests
    IN  IF ~prompt.raised /\ ~result.raised /\ result.value.response # <<>>
        THEN [raised |-> FALSE, value |-> result.value.response, path |-> "llm",
              requests |-> requests]
        ELSE [raised |-> TRUE, value |-> <<>>, path |-> "raised", requests |-> requests]

\* AIOrchestrator.generateAccomplishmentStatement
generateAccomplishmentStatement(store, data, backend) ==
    LET prompt == buildSAPAIPrompt(store, data)
        result == callSAPAI(prompt.value, backend)
        requests == IF prompt.raised THEN <<>> ELSE result.requests
    IN  IF ~prompt.raised /\ ~result.raised /\ result.value.response # <<>>
        THEN [raised |-> FALSE, value |-> result.value.response, path |-> "llm",
              requests |-> requests]
        ELSE [raised |-> FALSE, value |-> generateMockResponse(data),
              path |-> "fallback", requests |-> requests]

\* AIOrchestrator.generateWithPrompt: the completion text, or the error of
\* buildPrompt or callSAPAI thrown again
generateWithPrompt(store, promptId, variables, backend) ==
    LET prompt == buildPrompt(store, promptId, variables)
        result == callSAPAI(prompt.value, backend)
        requests == IF prompt.raised THEN <<>> ELSE result.requests
    IN  IF ~prompt.raised /\ ~result.raised /\ result.value.response # <<>>
        THEN [raised |-> FALSE, value |-> result.value.response, path |-> "llm",
              requests |-> requests]
        ELSE [raised |-> TRUE, value |-> <<>>, path |-> "raised", requests |-> requests]

-----------------------------------------------------------------------------
(* The submit page (submit.js) once it has loaded                           *)

\* generate-questions-btn, generate-statement-btn, regenerate-btn and the
\* submit button of accomplishment-form
Controls == {"questions", "statement", "regenerate", "submit"}

BasicOnly == [basic |-> TRUE, dynamic |-> FALSE, preview |-> FALSE]
PreviewOnly == [basic |-> FALSE, dynamic |-> FALSE, preview |-> TRUE]

EmptyFields ==
    [originalStatement |-> <<>>, impactType |-> <<>>, emailAppreciation |-> <<>>]

HiddenResult == [display |-> FALSE, kind |-> "none", message |-> "", details |-> <<>>]

NothingHandled == [control |-> "none", outcome |-> "none"]

FormLoaded ==
    /\ display = BasicOnly
    /\ fields = EmptyFields
    /\ contextualQuestions = <<>>
    /\ answers = <<>>
    /\ currentPreviewData = JNull
    /\ disabled = [c \in Controls |-> FALSE]
    /\ pending = [c \in Controls |-> <<>>]
    /\ submissionResult = HiddenResult
    /\ handled = NothingHandled
    /\ issued = 0

-----------------------------------------------------------------------------
(* The prompt builder as a state machine (SpecPrompt)                       *)

PromptIds == {"accomplishment-generation", "contextual-questions-generation"}

TemplateKeys == {"originalStatement", "impactType"}

\* one entry of a template's "variables" object
VarConfigs ==
    {[key |-> k, required |-> r, default |-> d] :
        k \in TemplateKeys, r \in BOOLEAN,
        d \in {JUndefined, JStr(<<>>), JStr(<<"d">>)}}

\* the "variables" object of a template, as the list of its entries in key
\* order (an absent or empty object is the empty list)
VarConfigLists ==
    {<<>>} \cup {<<c>> : c \in VarConfigs}
    \cup {<<c1, c2>> : c1 \in {c \in VarConfigs : c.key = "originalStatement"},
                       c2 \in {c \in VarConfigs : c.key = "impactType"}}
    \cup {<<c2, c1>> : c1 \in {c \in VarConfigs : c.key = "originalStatement"
                                                   /\ c.default.t = "undefined"},
                       c2 \in {c \in VarConfigs : c.key = "impactType"
                                                   /\ c.default.t = "undefined"}}

ContextTemplate ==
    <<" ", "{{originalStatement}}", " ", "t", "\n", "{{impactType}}",
      "{{extra}}", "{{originalStatement}}", " ">>

Templates ==
    {[system |-> <<"S">>, contextTemplate |-> ContextTemplate,
      task |-> <<"T">>, format |-> <<"F">>, variables |-> vs] :
        vs \in VarConfigLists}

\* what loadPrompts can leave in this.prompts
TemplateStores ==
    {<<>>} \cup
    {[id \in ids |-> t] : ids \in {{"accomplishment-generation"}, PromptIds},
                          t \in Templates}

\* the variable maps callers pass
VariableMaps ==
    {[k \in ks |-> CASE k = "originalStatement" -> o
                     [] k = "impactType" -> JStr(<<"customer">>)
                     [] OTHER -> JStr(<<"q">>)] :
        ks \in {{"originalStatement"}, {"originalStatement", "impactType"},
                {"originalStatement", "extra"},
                {"originalStatement", "impactType", "extra"}},
        o \in {JNull, JStr(<<>>), JStr(<<"v">>), JStr(<<"{{impactType}}">>),
               JStr(<<"$&">>)}}
    \cup {<<>>, [impactType |-> JStr(<<"customer">>)]}

\* the template files, in directory order
PromptFileNames == <<"accomplishment-generation", "contextual-questions-generation">>

\* a directory whose files hold the templates of a store
FilesOf(store) ==
    LET present == SelectSeq(PromptFileNames, LAMBDA name : name \in DOMAIN store)
    IN  [i \in 1..Len(present) |->
            PromptFile(present[i], ".json", Parsed(store[present[i]]))]

\* a template file without a "system" entry
TemplateWithoutSystem ==
    [contextTemplate |-> ContextTemplate, task |-> <<"T">>, format |-> <<"F">>,
     variables |-> <<>>]

\* the stores whose templates declare no variable
PlainStores == {store \in TemplateStores :
                  \A id \in DOMAIN store : store[id].variables = <<>>}

\* the prompts directories the orchestrator is started on: the template
\* files alone, or with a file that is not JSON, with one more template file
\* that does not parse, or with one that lacks an entry
PromptDirectories ==
    {FilesOf(store) : store \in TemplateStores}
    \cup {<<PromptFile("README", ".md", Unparseable)>> \o FilesOf(store) :
            store \in PlainStores}
    \cup {FilesOf(store) \o <<PromptFile("shareable-post", ".json", content)>> :
            store \in PlainStores,
            content \in {Unparseable, Parsed(TemplateWithoutSystem)}}

NotCalled == [called |-> FALSE]
NoRequest == [endpoint |-> "none"]

\* no generation has called callSAPAI
NoCalls == <<>>

\* the state after the two modules are loaded: HanaConnection.connection is
\* null (0), DBServer.initialized is false, no connection was created, no
\* request is waiting for a connection and none has arrived
NotConnected ==
    [connection |-> 0, initialized |-> FALSE, created |-> <<>>, waiting |-> {},
     requests |-> 0]

\* no congratulate or vote request has reached the server.  inFlight is the
\* bag of the requests the server has not answered, each with the place its
\* toggle method is at; issued counts the requests received.  succeeded and
\* overlapped keep, per record and counter, what the
\* properties speak about: how many requests were answered with success, and
\* whether one arrived while another one on the same counter was unanswered.
NoToggles ==
    [inFlight |-> EmptyBag, issued |-> 0,
     succeeded |-> [k \in {"congratulations", "vote"} |-> [id \in 0..2 |-> 0]],
     overlapped |-> [k \in {"congratulations", "vote"} |-> [id \in 0..2 |-> FALSE]]]

InitPrompt ==
    /\ promptsDir \in PromptDirectories
    /\ prompts = loadPrompts(promptsDir)
    /\ promptCall = [promptId |-> "accomplishment-generation", variables |-> <<>>]
    /\ built = NotCalled
    /\ validation = NotCalled
    /\ db = <<>>
    /\ now = 0
    /\ api = NoRequest
    /\ toggles = NoToggles
    /\ llm = NoCalls
    /\ hana = NotConnected
    /\ FormLoaded

\* a caller gets hold of a template name and a variable map
PrepareCall(promptId, variables) ==
    /\ promptCall' = [promptId |-> promptId, variables |-> variables]
    /\ built' = NotCalled
    /\ validation' = NotCalled
    /\ UNCHANGED <<prompts, promptsDir, apiVars, formVars>>

\* how many times a caller repeats a buildPrompt call
MaxBuilds == 2

\* a faulty buildPrompt call that substitutes in the stored template itself
BuildPromptSubstitutingInPlace ==
    /\ built.called => built.calls < MaxBuilds
    /\ built' = [called |-> TRUE,
                 calls |-> IF built.called THEN built.calls + 1 ELSE 1,
                 processedVars |->
                     IF promptCall.promptId \in DOMAIN prompts
                     THEN ProcessedVars(prompts[promptCall.promptId],
                                        promptCall.variables)
                     ELSE <<>>,
                 result |-> buildPrompt(prompts, promptCall.promptId,
                                        promptCall.variables)]
    /\ prompts' =
          IF promptCall.promptId \in DOMAIN prompts
          THEN [prompts EXCEPT ![promptCall.promptId].contextTemplate =
                    SubstituteFrom(@, ProcessedVars(prompts[promptCall.promptId],
                                                    promptCall.variables), 1)]
          ELSE prompts
    /\ UNCHANGED <<promptsDir, promptCall, validation, apiVars, formVars>>

\* buildPrompt(promptId, variables), called for the first time with these
\* arguments or once more
BuildPrompt ==
    /\ built.called => built.calls < MaxBuilds
    /\ built' = [called |-> TRUE,
                 calls |-> IF built.called THEN built.calls + 1 ELSE 1,
                 processedVars |->
                     IF promptCall.promptId \in DOMAIN prompts
                     THEN ProcessedVars(prompts[promptCall.promptId],
                                        promptCall.variables)
                     ELSE <<>>,
                 result |-> buildPrompt(prompts, promptCall.promptId,
                                        promptCall.variables)]
    /\ UNCHANGED <<prompts, promptsDir, promptCall, validation, apiVars, formVars>>

\* validatePromptVariables(promptId, variables)
ValidatePromptVariables ==
    /\ validation = NotCalled
    /\ validation' = [called |-> TRUE,
                      result |-> validatePromptVariables(prompts,
                                     promptCall.promptId, promptCall.variables)]
    /\ UNCHANGED <<prompts, promptsDir, promptCall, built, apiVars, formVars>>

\* loadPrompts(): the directory is read again
LoadPrompts ==
    /\ prompts' = loadPrompts(promptsDir)
    /\ UNCHANGED <<promptsDir, promptCall, built, validation, apiVars, formVars>>

NextPrompt ==
    \/ \E promptId \in PromptIds, variables \in VariableMaps :
           PrepareCall(promptId, variables)
    \/ BuildPrompt
    \/ ValidatePromptVariables
    \/ LoadPrompts

SpecPrompt == InitPrompt /\ [][NextPrompt]_vars

-----------------------------------------------------------------------------
(* The POST endpoints of index.js (SpecApi)                                 *)

MaxNow == 1

\* a JSON array of scalars as the model writes it
ItemText(x) == IF x.t = "string" THEN <<"\"">> \o x.v \o <<"\"">> ELSE x.v

JsonArrayText(items) ==
    <<"[">> \o Join([i \in 1..Len(items) |-> ItemText(items[i])], <<",", " ">>)
    \o <<"]">>

LlmQuestions ==
    <<JStr(<<"What", " ", "changed?">>), JStr(<<"Who", " ", "noticed?">>),
      JStr(<<"How", " ", "long?">>), JStr(<<"Which", " ", "tools?">>),
      JStr(<<"Why", " ", "now?">>), JStr(<<"What", " ", "next?">>)>>

\* the completion texts the backend may answer a questions prompt with
QuestionContents ==
    {<<>>, <<"Sure,", " ", "here", " ", "you", " ", "go">>, <<"{", "}">>,
     <<"\"", "What", " ", "changed?", "\"">>,
     <<"[", "\"", "a", "\"", ",", "]">>,
     JsonArrayText(<<JStr(<<"What", " ", "changed?">>), JStr(<<>>), JStr(<<"Why?">>)>>),
     <<"[", "1", ",", " ", "2", ",", " ", "3", "]">>}
    \cup {JsonArrayText(SubSeq(LlmQuestions, 1, n)) : n \in 0..6}

FailingBackends ==
    {[tokenOk |-> FALSE, completionOk |-> FALSE, content |-> <<>>],
     [tokenOk |-> TRUE, completionOk |-> FALSE, content |-> <<>>]}

Answering(contents) ==
    {[tokenOk |-> TRUE, completionOk |-> TRUE, content |-> c] : c \in contents}

\* the permutations the random sort may leave, and the two slice lengths
Orders == {<<1, 2, 3, 4, 5>>, <<3, 5, 4, 1, 2>>}
Counts == {3, 4}

ShortStatement == <<"Today", " ", "I", " ", "Fixed", " ", "w">>

\* the bodies posted to /api/questions/generate
QuestionBodies ==
    {[originalStatement |-> JStr(ShortStatement), impactType |-> i, emailAppreciation |-> e] :
        i \in {JStr(<<"customer">>), JStr(<<"team">>), JStr(<<"other">>), JUndefined},
        e \in {JStr(<<"t", "h", "x">>)}}

\* the prompt stores the endpoints run with: both templates loaded, or none
\* (loadPrompts failed)
OrchestratorTemplate ==
    [system |-> <<"S">>,
     contextTemplate |->
        <<"{{userName}}", " ", "{{originalStatement}}", " ", "{{impactType}}", " ",
          "{{emailAppreciation}}", " ", "{{additionalDetails}}">>,
     task |-> <<"T">>, format |-> <<"F">>,
     variables |->
        <<[key |-> "originalStatement", required |-> TRUE, default |-> JUndefined],
          [key |-> "userName", required |-> FALSE, default |-> JUndefined],
          [key |-> "impactType", required |-> FALSE, default |-> JUndefined],
          [key |-> "emailAppreciation", required |-> FALSE, default |-> JStr(<<"None">>)],
          [key |-> "additionalDetails", required |-> FALSE, default |-> JUndefined]>>]

ApiStores == {<<>>, [id \in PromptIds |-> OrchestratorTemplate]}

NoAi == [raised |-> FALSE, value |-> <<>>, path |-> "none", requests |-> <<>>]
NoSave == [attempted |-> FALSE]

\* POST /api/questions/generate: the request with the answer of the handler
QuestionsGenerateHandler(store, body, backend, order, count) ==
    LET basicData == [originalStatement |-> body.originalStatement,
                      impactType |-> body.impactType,
                      emailAppreciation |-> body.emailAppreciation]
        ai == generateContextualQuestions(store, basicData, backend, order, count)
    IN  [endpoint |-> "questions", request |-> body, backend |-> backend,
         status |-> IF ai.raised THEN 500 ELSE 200,
         success |-> ~ai.raised,
         data |-> IF ai.raised THEN <<>> ELSE ai.value,
         ai |-> ai, save |-> NoSave]

PostQuestionsGenerate(body, backend, order, count) ==
    /\ api = NoRequest
    /\ api' = QuestionsGenerateHandler(prompts, body, backend, order, count)
    /\ UNCHANGED <<db, now, promptVars, llm, hana, toggles, formVars>>

\* POST /api/accomplishment/generate: the request with the answer of the handler
AccomplishmentGenerateHandler(store, body, backend) ==
    LET ai == generateAccomplishmentStatement(store, body, backend)
    IN  [endpoint |-> "generate", request |-> body, backend |-> backend,
         status |-> IF ai.raised THEN 500 ELSE 200,
         success |-> ~ai.raised,
         data |-> IF ai.raised THEN <<>> ELSE ai.value,
         ai |-> ai, save |-> NoSave]

\* a faulty handler that counts a generated statement on the first stored
\* record
PostAccomplishmentGenerateCountingTheStatement(body, backend) ==
    /\ api = NoRequest
    /\ api' = AccomplishmentGenerateHandler(prompts, body, backend)
    /\ db' = [i \in DOMAIN db |->
                IF i = 1 THEN [db[i] EXCEPT !.votesCount = @ + 1] ELSE db[i]]
    /\ UNCHANGED <<now, promptVars, llm, hana, toggles, formVars>>

PostAccomplishmentGenerate(body, backend) ==
    /\ api = NoRequest
    /\ api' = AccomplishmentGenerateHandler(prompts, body, backend)
    /\ UNCHANGED <<db, now, promptVars, llm, hana, toggles, formVars>>

\* the parameters DBServer.saveAccomplishment binds, with the column defaults
RowOf(accomplishment) ==
    [id |-> accomplishment.id,
     userId |-> accomplishment.userId,
     userName |-> accomplishment.userName,
     originalStatement |-> accomplishment.originalStatement,
     emailAppreciation |-> accomplishment.responses.emailAppreciation,
     impactType |-> IF accomplishment.impactType # <<>> THEN accomplishment.impactType
                    ELSE accomplishment.responses.impactType,
     additionalDetails |-> accomplishment.responses.additionalDetails,
     aiGeneratedStatement |-> accomplishment.aiGeneratedStatement,
     createdAt |-> accomplishment.createdAt,
     congratulationsCount |-> 0,
     votesCount |-> 0]

\* the INSERT of saveAccomplishment: ID is the primary key
InsertFails(rows, row, dbOk) ==
    ~dbOk \/ \E i \in 1..Len(rows) : rows[i].id = row.id

\* a faulty choice of the statement to save: whatever the request carries
StatementToSaveAsSent(body, ai) ==
    [raised |-> FALSE, value |-> body.aiGeneratedStatement.v]

\* the statement POST /api/accomplishments saves: the one the request carries,
\* or a generated one when it carries none
StatementToSave(body, ai) ==
    IF Truthy(body.aiGeneratedStatement)
    THEN [raised |-> FALSE, value |-> body.aiGeneratedStatement.v]
    ELSE [raised |-> ai.raised, value |-> ai.value]

\* POST /api/accomplishments: the request with the answer of the handler
AccomplishmentsHandler(store, rows, clock, body, backend, dbOk) ==
    LET generated == generateAccomplishmentStatement(store, body, backend)
        ai == IF Truthy(body.aiGeneratedStatement) THEN NoAi ELSE generated
        aiStatement == StatementToSave(body, generated)
        accomplishment ==
            [userId |-> body.userId, userName |-> body.userName,
             originalStatement |-> body.originalStatement,
             responses |-> body.responses, impactType |-> body.impactType,
             aiGeneratedStatement |-> aiStatement.value,
             createdAt |-> clock, id |-> clock]
        failed == aiStatement.raised \/ InsertFails(rows, RowOf(accomplishment), dbOk)
    IN  [endpoint |-> "save", request |-> body, backend |-> backend,
         status |-> IF failed THEN 500 ELSE 200,
         success |-> ~failed,
         data |-> IF failed THEN <<>> ELSE accomplishment,
         ai |-> ai,
         save |-> IF aiStatement.raised THEN NoSave
                  ELSE [attempted |-> TRUE, accomplishment |-> accomplishment]]

\* the table after the handler: the row is there when the INSERT went through
RowsAfter(rows, exchange) ==
    IF exchange.success THEN Append(rows, RowOf(exchange.data)) ELSE rows

PostAccomplishments(body, backend, dbOk) ==
    /\ api = NoRequest
    /\ api' = AccomplishmentsHandler(prompts, db, now, body, backend, dbOk)
    /\ db' = RowsAfter(db, api')
    /\ UNCHANGED <<now, promptVars, llm, hana, toggles, formVars>>

\* the template a shareable post is generated with, and the variables of an
\* accomplishment handed to it
SharePromptIds == {"accomplishment-generation", "linkedin-post-generation"}
ShareVariables ==
    {[originalStatement |-> JStr(ShortStatement), impactType |-> JStr(<<"customer">>)]}

\* generateWithPrompt(promptId, variables), the generic generation a caller
\* without a function of its own goes through
GenerateWithPrompt(promptId, variables, backend) ==
    /\ api = NoRequest
    /\ api' = [endpoint |-> "generateWithPrompt",
               request |-> [promptId |-> promptId, variables |-> variables],
               backend |-> backend,
               ai |-> generateWithPrompt(prompts, promptId, variables, backend),
               save |-> NoSave]
    /\ UNCHANGED <<db, now, promptVars, llm, hana, toggles, formVars>>

\* res.json / res.status(500).json: the answer leaves the server
Reply ==
    /\ api # NoRequest
    /\ api' = NoRequest
    /\ UNCHANGED <<db, now, promptVars, llm, hana, toggles, formVars>>

\* the clock of the server moves on.  Date.now() is read for ids only, so
\* the clock is moved once the id of the present millisecond is taken.
Tick ==
    /\ api = NoRequest
    /\ now < MaxNow
    /\ \E i \in 1..Len(db) : db[i].id = now
    /\ now' = now + 1
    /\ UNCHANGED <<db, api, promptVars, llm, hana, toggles, formVars>>

\* the additionalDetails the submit form composes from answered questions
QaBlocks(questions, answer) ==
    Join([i \in 1..Len(questions) |->
            <<"Q:", " ">> \o questions[i].v \o <<"\n", "A:", " ">> \o answer],
         <<"\n", "\n">>)

DetailChoices ==
    {<<>>, Words(120),
     QaBlocks(SubSeq(customerQuestions, 1, 4), Words(12)),
     QaBlocks(SubSeq(customerQuestions, 1, 4), Words(20))}

AppreciationChoices == {<<>>, <<"t", "h", "x">>, Words(41)}

\* the drafts posted to /api/accomplishment/generate
GenerateBodies ==
    {[userId |-> <<"ann@example.com">>, userName |-> <<"Ann", " ", "Lee">>,
      originalStatement |-> o,
      responses |-> [emailAppreciation |-> e, impactType |-> i, additionalDetails |-> d],
      impactType |-> i, aiGeneratedStatement |-> JUndefined] :
        o \in {ShortStatement}, e \in AppreciationChoices,
        i \in {<<"customer">>, <<"team">>, <<>>}, d \in DetailChoices}

\* the bodies posted to /api/accomplishments
SaveBodies ==
    {[userId |-> <<"ann@example.com">>, userName |-> <<"Ann", " ", "Lee">>,
      originalStatement |-> ShortStatement,
      responses |-> [emailAppreciation |-> <<>>, impactType |-> <<"customer">>,
                     additionalDetails |-> <<>>],
      impactType |-> <<"customer">>, aiGeneratedStatement |-> s] :
        s \in {JUndefined, JStr(<<>>), JStr(<<"Ann", " ", "fixed", " ", "w.">>)}}

StatementContents == {<<>>, <<"Ann", " ", "resolved", " ", "w.">>}

InitApi ==
    /\ promptsDir \in {FilesOf(store) : store \in ApiStores}
    /\ prompts = loadPrompts(promptsDir)
    /\ promptCall = [promptId |-> "accomplishment-generation", variables |-> <<>>]
    /\ built = NotCalled
    /\ validation = NotCalled
    /\ db = <<>>
    /\ now = 0
    /\ api = NoRequest
    /\ toggles = NoToggles
    /\ llm = NoCalls
    /\ hana = NotConnected
    /\ FormLoaded

NextApi ==
    \/ \E body \in QuestionBodies,
          backend \in FailingBackends \cup Answering(QuestionContents),
          order \in Orders, count \in Counts :
           PostQuestionsGenerate(body, backend, order, count)
    \/ \E body \in GenerateBodies,
          backend \in FailingBackends
                        \cup Answering(StatementContents \cup {Words(MaxStatementWords + 1)}) :
           PostAccomplishmentGenerate(body, backend)
    \/ \E body \in SaveBodies \cup
                     {b @@ [id |-> 1, createdAt |-> 1] :
                        b \in {x \in SaveBodies : Truthy(x.aiGeneratedStatement)}},
          backend \in FailingBackends \cup Answering(StatementContents),
          dbOk \in BOOLEAN :
           PostAccomplishments(body, backend, dbOk)
    \/ \E promptId \in SharePromptIds, variables \in ShareVariables,
          backend \in FailingBackends \cup Answering(StatementContents) :
           GenerateWithPrompt(promptId, variables, backend)
    \/ Reply
    \/ Tick

SpecApi == InitApi /\ [][NextApi]_vars

-----------------------------------------------------------------------------
(* Generations calling the LLM service side by side (SpecLlm)               *)

\* the generations started in a run
MaxCalls == 3

\* a faulty bearer: the token of the first acquisition that succeeded, kept
\* for every later call
BearerOfFirstToken(calls, c) ==
    LET acquired == {d \in 1..Len(calls) : calls[d].auth # 0}
    IN  IF acquired = {} THEN c
        ELSE calls[CHOOSE d \in acquired : \A e \in acquired : d <= e].auth

\* "Bearer " + auth.access_token: auth is the answer to the token request
\* of the same callSAPAI call.  A token is named by the call whose token
\* request it answered.
BearerOf(calls, c) == calls[c].auth

\* a generation builds its prompt and calls callSAPAI, which sends the
\* token request of getAICoreAccessToken
CallSAPAI(op, prompt) ==
    /\ Len(llm) < MaxCalls
    /\ llm' = Append(llm, [op |-> op, prompt |-> prompt, pc |-> "token", auth |-> 0,
                           requests |-> <<TokenRequest>>, path |-> "pending"])
    /\ UNCHANGED <<promptVars, db, now, api, toggles, hana, formVars>>

\* the token request of call c is answered: getAICoreAccessToken returns
\* response.data and callSAPAI sends the completion request, or it throws
\* and the generation answers from its catch block
TokenAnswered(c, ok) ==
    /\ c \in 1..Len(llm)
    /\ llm[c].pc = "token"
    /\ LET acquired == [llm EXCEPT ![c].auth = c]
       IN  llm' = IF ok
                  THEN [acquired EXCEPT
                          ![c].pc = "completion",
                          ![c].requests =
                              Append(@, [bearer |-> BearerOf(acquired, c)]
                                        @@ CompletionRequest(llm[c].prompt))]
                  ELSE [llm EXCEPT ![c].pc = "done", ![c].path = "fallback"]
    /\ UNCHANGED <<promptVars, db, now, api, toggles, hana, formVars>>

\* the completion request of call c is answered: callSAPAI returns the text
\* of the first choice, or throws; an empty text and an error end in the
\* catch block of the generation
CompletionAnswered(c, ok, content) ==
    /\ c \in 1..Len(llm)
    /\ llm[c].pc = "completion"
    /\ LET parsed == JsonParse(content)
           usable == /\ ok
                     /\ content # <<>>
                     /\ llm[c].op = "questions" =>
                            ~parsed.raised /\ IsQuestionArray(parsed.value)
       IN  llm' = [llm EXCEPT ![c].pc = "done",
                              ![c].path = IF usable THEN "llm" ELSE "fallback"]
    /\ UNCHANGED <<promptVars, db, now, api, toggles, hana, formVars>>

InitLlm ==
    /\ promptsDir = FilesOf([id \in PromptIds |-> OrchestratorTemplate])
    /\ prompts = loadPrompts(promptsDir)
    /\ promptCall = [promptId |-> "accomplishment-generation", variables |-> <<>>]
    /\ built = NotCalled
    /\ validation = NotCalled
    /\ db = <<>>
    /\ now = 0
    /\ api = NoRequest
    /\ toggles = NoToggles
    /\ llm = NoCalls
    /\ hana = NotConnected
    /\ FormLoaded

NextLlm ==
    \/ \E body \in {b \in GenerateBodies : b.responses.additionalDetails = <<>>
                                          /\ b.responses.emailAppreciation = <<>>
                                          /\ b.impactType # <<>>} :
           CallSAPAI("statement", buildSAPAIPrompt(prompts, body).value)
    \/ \E body \in {b \in QuestionBodies : b.impactType = JStr(<<"customer">>)} :
           CallSAPAI("questions",
                     buildPrompt(prompts, "contextual-questions-generation",
                                 [originalStatement |-> body.originalStatement,
                                  impactType |->
                                      OrElse(body.impactType, <<"Not", " ", "specified">>),
                                  emailAppreciation |->
                                      OrElse(body.emailAppreciation,
                                             <<"None", " ", "provided">>)]).value)
    \/ \E c \in 1..MaxCalls, ok \in BOOLEAN : TokenAnswered(c, ok)
    \/ \E c \in 1..MaxCalls, ok \in BOOLEAN :
           \E content \in StatementContents \cup QuestionContents :
               CompletionAnswered(c, ok, content)

SpecLlm == InitLlm /\ [][NextLlm]_vars

-----------------------------------------------------------------------------
(* The database connection under the API requests (SpecConnection)          *)

\* the API requests that arrive in a run
MaxConnects == 3

\* this.connection && this.connection.state() === 'connected'
Connected(h) == h.connection # 0 /\ h.created[h.connection] = "connected"

\* HanaConnection.connect up to its await, called by a request in phase
\* "initialize" (DBServer.initialize) or "execute" (HanaConnection.execute):
\* the connection there is is returned when it is connected; otherwise a
\* connection is created and assigned to this.connection, and the caller
\* waits for it to connect.  A request that finds the connection connected in
\* initialize sets initialized and finds the same in execute.
connect(h, phase) ==
    IF Connected(h)
    THEN [h EXCEPT !.initialized = @ \/ phase = "initialize"]
    ELSE [h EXCEPT !.created = Append(@, "connecting"),
                   !.connection = Len(h.created) + 1,
                   !.waiting = @ \cup {[conn |-> Len(h.created) + 1, phase |-> phase]}]

\* an API request reaches a method of DBServer: ensureInitialized calls
\* initialize unless initialized is set, and the method goes on to execute
ApiRequest ==
    /\ hana.requests < MaxConnects
    /\ hana' = connect([hana EXCEPT !.requests = @ + 1],
                       IF hana.initialized THEN "execute" ELSE "initialize")
    /\ UNCHANGED <<promptVars, db, now, api, toggles, llm, formVars>>

\* the connect callback of a created connection runs.  On an error the
\* request fails.  Otherwise a caller in initialize sets initialized and
\* goes on to execute, which calls connect again; a caller in execute has
\* its connection.
ConnectSettles(caller, ok) ==
    /\ caller \in hana.waiting
    /\ LET settled == [hana EXCEPT
                          !.created[caller.conn] =
                              IF ok THEN "connected" ELSE "disconnected",
                          !.waiting = @ \ {caller}]
       IN  hana' = IF ok /\ caller.phase = "initialize"
                   THEN connect([settled EXCEPT !.initialized = TRUE], "execute")
                   ELSE settled
    /\ UNCHANGED <<promptVars, db, now, api, toggles, llm, formVars>>

InitConnection ==
    /\ promptsDir = FilesOf([id \in PromptIds |-> OrchestratorTemplate])
    /\ prompts = loadPrompts(promptsDir)
    /\ promptCall = [promptId |-> "accomplishment-generation", variables |-> <<>>]
    /\ built = NotCalled
    /\ validation = NotCalled
    /\ db = <<>>
    /\ now = 0
    /\ api = NoRequest
    /\ toggles = NoToggles
    /\ llm = NoCalls
    /\ hana = NotConnected
    /\ FormLoaded

NextConnection ==
    \/ ApiRequest
    \/ \E caller \in hana.waiting, ok \in BOOLEAN : ConnectSettles(caller, ok)

SpecConnection == InitConnection /\ [][NextConnection]_vars

-----------------------------------------------------------------------------
(* The stored records under the counter and read endpoints (SpecCounters)   *)

\* the congratulate and vote requests received in a run
MaxToggles == 3

\* the two counter endpoints and the ids their requests address: those of
\* the two stored records and one no record has
ToggleKinds == {"congratulations", "vote"}
ToggleIds == {0, 1, 2}

\* the records stored when the requests start coming in: two submissions of
\* one user, saved a millisecond apart
StoredRecords ==
    LET body == CHOOSE b \in SaveBodies : Truthy(b.aiGeneratedStatement)
        saved(clock) ==
            AccomplishmentsHandler(<<>>, <<>>, clock, body,
                                   CHOOSE b \in FailingBackends : TRUE, TRUE).data
    IN  <<RowOf(saved(0)), RowOf(saved(1))>>

\* the column toggleCongratulations and toggleVote read and write
CounterOf(kind) ==
    IF kind = "congratulations" THEN "congratulationsCount" ELSE "votesCount"

\* the error message the catch block of each toggle method throws
ToggleError(kind) ==
    IF kind = "congratulations" THEN "Failed to update congratulations"
    ELSE "Failed to update vote"

\* what a counter endpoint answers
ToggleAnswer(kind, id, userEmail, status, data) ==
    [endpoint |-> kind, request |-> id, userEmail |-> userEmail, status |-> status,
     success |-> status = 200, data |-> data, ai |-> NoAi, save |-> NoSave]

\* a faulty endpoint that hands every request to the toggle method
PostToggleWithoutEmailCheck(kind, id, userEmail) ==
    /\ api = NoRequest
    /\ toggles.issued < MaxToggles
    /\ api' = api
    /\ toggles' =
         [toggles EXCEPT
            !.issued = @ + 1,
            !.inFlight = @ (+) SetToBag({[kind |-> kind, id |-> id,
                                          userEmail |-> userEmail,
                                          pc |-> "select", currentCount |-> 0]}),
            !.overlapped[kind][id] =
                @ \/ \E other \in BagToSet(toggles.inFlight) :
                        other.kind = kind /\ other.id = id]
    /\ UNCHANGED <<db, now, promptVars, llm, hana, formVars>>

\* POST /api/accomplishments/:id/congratulations and .../vote: the request
\* is turned down without a userEmail, and handed to the toggle method of
\* DBServer otherwise, which sends its SELECT
PostToggle(kind, id, userEmail) ==
    /\ api = NoRequest
    /\ toggles.issued < MaxToggles
    /\ IF ~Truthy(userEmail)
       THEN /\ api' = ToggleAnswer(kind, id, userEmail, 400, "User email is required")
            /\ toggles' = [toggles EXCEPT !.issued = @ + 1]
       ELSE /\ api' = api
            /\ toggles' =
                 [toggles EXCEPT
                    !.issued = @ + 1,
                    !.inFlight = @ (+) SetToBag({[kind |-> kind, id |-> id,
                                                  userEmail |-> userEmail,
                                                  pc |-> "select", currentCount |-> 0]}),
                    !.overlapped[kind][id] =
                        @ \/ \E other \in BagToSet(toggles.inFlight) :
                                other.kind = kind /\ other.id = id]
    /\ UNCHANGED <<db, now, promptVars, llm, hana, formVars>>

\* the users looking at the feed: the owner of the stored records, and one
\* who gave no email at the prompt
FeedUsers ==
    {[email |-> <<"ann@example.com">>, name |-> <<"Ann", " ", "Lee">>],
     [email |-> <<"demo@company.com">>, name |-> <<"Demo", " ", "User">>]}

\* EAAppRouter.isDemoUser
isDemoUser(currentUser) ==
    \/ currentUser.email = <<"demo@company.com">>
    \/ currentUser.name = <<"Demo", " ", "User">>
    \/ Trim(currentUser.email) = <<>>
    \/ Trim(currentUser.name) = <<>>

\* a click on Congratulate or Vote of a card of the feed.  The card of every
\* loaded record carries both buttons, with no disabled attribute whoever
\* owns the record; the handler stops for a demo user and posts the request
\* with the email of the current user otherwise.
FeedToggle(kind, id, currentUser) ==
    /\ api = NoRequest
    /\ \E n \in 1..Len(db) : db[n].id = id
    /\ IF isDemoUser(currentUser)
       THEN UNCHANGED vars
       ELSE PostToggle(kind, id, JStr(currentUser.email))

\* the SELECT of a toggle method is executed and the method goes on: it
\* throws when the statement fails or finds no row, and sends its UPDATE with
\* the count it read plus one otherwise
ToggleSelect(request, dbOk) ==
    /\ api = NoRequest
    /\ BagIn(request, toggles.inFlight)
    /\ request.pc = "select"
    /\ LET currentResult == SelectSeq(db, LAMBDA row : row.id = request.id)
           waiting == toggles.inFlight (-) SetToBag({request})
       IN  IF ~dbOk \/ Len(currentResult) = 0
           THEN /\ api' = ToggleAnswer(request.kind, request.id, request.userEmail,
                                       500, ToggleError(request.kind))
                /\ toggles' = [toggles EXCEPT !.inFlight = waiting]
           ELSE /\ api' = api
                /\ toggles' =
                     [toggles EXCEPT
                        !.inFlight = waiting (+) SetToBag({
                            [request EXCEPT
                               !.pc = "update",
                               !.currentCount =
                                   currentResult[1][CounterOf(request.kind)]]})]
    /\ UNCHANGED <<db, now, promptVars, llm, hana, formVars>>

\* a faulty UPDATE: no WHERE clause, the counter of every row is set
CounterSetOnEveryRow(rows, kind, id, newCount) ==
    [n \in 1..Len(rows) |-> [rows[n] EXCEPT ![CounterOf(kind)] = newCount]]

\* the table after UPDATE ACCOMPLISHMENTS SET <counter> = ? WHERE ID = ?
CounterSet(rows, kind, id, newCount) ==
    [n \in 1..Len(rows) |->
        IF rows[n].id = id THEN [rows[n] EXCEPT ![CounterOf(kind)] = newCount]
        ELSE rows[n]]

\* a faulty new count: the count read, written back as it is
NewCountAsRead(currentCount) == currentCount

\* const newCount = currentCount + 1 ("for demo purposes, always increment")
NewCount(currentCount) == currentCount + 1

\* the UPDATE of a toggle method is executed and the endpoint answers
ToggleUpdate(request, dbOk) ==
    /\ api = NoRequest
    /\ BagIn(request, toggles.inFlight)
    /\ request.pc = "update"
    /\ LET newCount == NewCount(request.currentCount)
           waiting == toggles.inFlight (-) SetToBag({request})
       IN  IF dbOk
           THEN /\ db' = CounterSet(db, request.kind, request.id, newCount)
                /\ api' = ToggleAnswer(request.kind, request.id, request.userEmail, 200, newCount)
                /\ toggles' = [toggles EXCEPT
                                 !.inFlight = waiting,
                                 !.succeeded[request.kind][request.id] = @ + 1]
           ELSE /\ db' = db
                /\ api' = ToggleAnswer(request.kind, request.id, request.userEmail,
                                       500, ToggleError(request.kind))
                /\ toggles' = [toggles EXCEPT !.inFlight = waiting]
    /\ UNCHANGED <<now, promptVars, llm, hana, formVars>>

\* ORDER BY CREATED_AT DESC, VOTES_COUNT DESC, CONGRATULATIONS_COUNT DESC
ComesFirst(a, b) ==
    \/ a.createdAt > b.createdAt
    \/ a.createdAt = b.createdAt /\ a.votesCount > b.votesCount
    \/ /\ a.createdAt = b.createdAt /\ a.votesCount = b.votesCount
       /\ a.congratulationsCount >= b.congratulationsCount

RECURSIVE Ordered(_)
Ordered(rows) ==
    IF rows = <<>> THEN <<>>
    ELSE LET first == CHOOSE i \in 1..Len(rows) :
                        \A j \in 1..Len(rows) : ComesFirst(rows[i], rows[j])
         IN  <<rows[first]>> \o Ordered(SubSeq(rows, 1, first - 1)
                                            \o SubSeq(rows, first + 1, Len(rows)))

\* transformAccomplishment: a row in the form the pages expect
transformAccomplishment(row) ==
    [id |-> row.id, userId |-> row.userId,
     userName |-> IF row.userName # <<>> THEN row.userName
                  ELSE <<"Unknown", " ", "User">>,
     statement |-> row.aiGeneratedStatement,
     originalStatement |-> row.originalStatement,
     impactType |-> row.impactType, createdAt |-> row.createdAt,
     emailAppreciation |-> row.emailAppreciation,
     additionalDetails |-> row.additionalDetails,
     congratulationsCount |-> row.congratulationsCount,
     votesCount |-> row.votesCount,
     aiGeneratedStatement |-> row.aiGeneratedStatement]

\* the rows a read endpoint selects: all of them, those of a user, those of
\* an impact type, or the one with an id
Selected(rows, route, param) ==
    SelectSeq(rows, LAMBDA row :
        CASE route = "all" -> TRUE
          [] route = "user" -> row.userId = param
          [] route = "filter" -> param = <<>> \/ row.impactType = param
          [] route = "byId" -> row.id = param)

\* GET /api/accomplishments, /user/:userId, /filter and /:id
GetAccomplishments(route, param, dbOk) ==
    /\ api = NoRequest
    /\ LET results == Ordered(Selected(db, route, param))
           data == [n \in 1..Len(results) |-> transformAccomplishment(results[n])]
       IN  api' = [endpoint |-> route, request |-> param,
                   status |-> IF dbOk THEN 200 ELSE 500,
                   success |-> dbOk,
                   data |-> IF ~dbOk THEN <<>>
                            ELSE IF route # "byId" THEN data
                            ELSE IF data = <<>> THEN JNull ELSE data[1],
                   ai |-> NoAi, save |-> NoSave]
    /\ UNCHANGED <<db, now, toggles, promptVars, llm, hana, formVars>>

ReadRequests ==
    {<<"all", <<>>>>, <<"user", <<"ann@example.com">>>>,
     <<"filter", <<"team">>>>, <<"byId", 0>>}

InitCounters ==
    /\ promptsDir = FilesOf([id \in PromptIds |-> OrchestratorTemplate])
    /\ prompts = loadPrompts(promptsDir)
    /\ promptCall = [promptId |-> "accomplishment-generation", variables |-> <<>>]
    /\ built = NotCalled
    /\ validation = NotCalled
    /\ db = StoredRecords
    /\ now = 1
    /\ api = NoRequest
    /\ toggles = NoToggles
    /\ llm = NoCalls
    /\ hana = NotConnected
    /\ FormLoaded

NextCounters ==
    \/ \E kind \in ToggleKinds, id \in ToggleIds,
          userEmail \in {JUndefined, JStr(<<"bob@example.com">>)} :
           PostToggle(kind, id, userEmail)
    \/ \E kind \in ToggleKinds, id \in ToggleIds, currentUser \in FeedUsers :
           FeedToggle(kind, id, currentUser)
    \/ \E request \in BagToSet(toggles.inFlight), dbOk \in BOOLEAN :
           ToggleSelect(request, dbOk)
    \/ \E request \in BagToSet(toggles.inFlight), dbOk \in BOOLEAN :
           ToggleUpdate(request, dbOk)
    \/ \E read \in ReadRequests, dbOk \in BOOLEAN :
           GetAccomplishments(read[1], read[2], dbOk)
    \/ \E body \in {b \in QuestionBodies : b.impactType = JStr(<<"team">>)},
          backend \in FailingBackends \cup Answering({JsonArrayText(SubSeq(LlmQuestions, 1, 3))}) :
           PostQuestionsGenerate(body, backend, <<1, 2, 3, 4, 5>>, 3)
    \/ \E body \in {b \in GenerateBodies : b.responses.additionalDetails = <<>>
                                          /\ b.responses.emailAppreciation = <<>>
                                          /\ b.impactType = <<"team">>},
          backend \in FailingBackends \cup Answering({ShortStatement}) :
           PostAccomplishmentGenerate(body, backend)
    \/ Reply

SpecCounters == InitCounters /\ [][NextCounters]_vars

-----------------------------------------------------------------------------
(* The submit page (submit.js) talking to the endpoints (SpecForm)          *)

WordLimit == 60
MaxRequests == 3

\* value.trim().split(/\s+/).length
FieldWordCount(value) == Len(SplitWhitespace(Trim(value)))

\* the fields validateWordLimits looks at: the two basic textareas, then
\* every textarea of contextual-questions-container
LimitedFields(form, boxes) ==
    <<[name |-> "Original Statement", index |-> 0, value |-> form.originalStatement],
      [name |-> "Email Appreciation", index |-> 0, value |-> form.emailAppreciation]>>
    \o [i \in 1..Len(boxes) |-> [name |-> "Question", index |-> i, value |-> boxes[i]]]

WordLimitError(field) ==
    [name |-> field.name, index |-> field.index, limit |-> WordLimit,
     wordCount |-> FieldWordCount(field.value)]

\* a faulty validateWordLimits that rejects a field of exactly WordLimit words
validateWordLimitsBlockingAtTheLimit(form, boxes) ==
    LET over(field) == /\ Trim(field.value) # <<>>
                       /\ FieldWordCount(field.value) >= WordLimit
        exceeding == SelectSeq(LimitedFields(form, boxes), over)
    IN  [i \in 1..Len(exceeding) |-> WordLimitError(exceeding[i])]

\* validateWordLimits
validateWordLimits(form, boxes) ==
    LET over(field) == /\ Trim(field.value) # <<>>
                       /\ FieldWordCount(field.value) > WordLimit
        exceeding == SelectSeq(LimitedFields(form, boxes), over)
    IN  [i \in 1..Len(exceeding) |-> WordLimitError(exceeding[i])]

\* showError: the message replaces what submission-result held and shows
showError(message, details) ==
    [display |-> TRUE, kind |-> "error", message |-> message, details |-> details]

\* showSubmissionResult: the saved statement replaces what the element held
showSubmissionResult(accomplishment) ==
    [display |-> TRUE, kind |-> "result", message |-> "",
     details |-> accomplishment.aiGeneratedStatement]

\* style.display = 'none' on submission-result.  Nothing reads the content of
\* the hidden element, and the next message replaces it, so it is dropped.
Hide(result) == HiddenResult

\* a faulty collectDynamicQuestionResponses that keeps the questions without
\* an answer
collectDynamicQuestionResponsesKeepingEmptyAnswers(labels, boxes) ==
    Join([i \in 1..Len(labels) |->
             <<"Q:", " ">> \o Trim(labels[i]) \o <<"\n", "A:", " ">> \o Trim(boxes[i])],
         <<"\n", "\n">>)

\* collectDynamicQuestionResponses: a block for every answered question
collectDynamicQuestionResponses(labels, boxes) ==
    LET answered == SelectSeq([i \in 1..Len(labels) |->
                                  [question |-> Trim(labels[i]), answer |-> Trim(boxes[i])]],
                              LAMBDA qa : qa.answer # <<>>)
    IN  Join([i \in 1..Len(answered) |->
                 <<"Q:", " ">> \o answered[i].question \o <<"\n", "A:", " ">>
                 \o answered[i].answer],
             <<"\n", "\n">>)

\* the signed-in user (EAApp.currentUser)
CurrentUser == [email |-> <<"ann@example.com">>, name |-> <<"Ann", " ", "Lee">>]

\* the formData generateStatementPreview collects
CollectFormData(form, labels, boxes) ==
    [userId |-> CurrentUser.email, userName |-> CurrentUser.name,
     originalStatement |-> form.originalStatement,
     responses |-> [emailAppreciation |-> form.emailAppreciation,
                    impactType |-> form.impactType,
                    additionalDetails |-> collectDynamicQuestionResponses(labels, boxes)],
     impactType |-> form.impactType,
     aiGeneratedStatement |-> JUndefined]

\* a faulty displayStatementPreview that keeps the draft's own statement
displayStatementPreviewShowingTheDraft(statement, formData) ==
    [statement |-> formData.originalStatement, formData |-> formData]

\* displayStatementPreview: what window.currentPreviewData holds afterwards
displayStatementPreview(statement, formData) ==
    [statement |-> statement, formData |-> formData]

\* a faulty finalData that leaves the shown statement out
finalDataWithoutTheStatement(preview) == preview.formData

\* the finalData handleFormSubmission posts
finalData(preview) ==
    [preview.formData EXCEPT !.aiGeneratedStatement = JStr(preview.statement)]

\* no fetch settles in this step
NoFetchSettles == handled' = NothingHandled /\ api' = NoRequest

\* a handler invocation suspended at its fetch
Sent(body) == [phase |-> "sent", body |-> body]

\* the finally block of a handler: its button is enabled again
Enabled(control) == [disabled EXCEPT ![control] = FALSE]

Without(requests, i) ==
    SubSeq(requests, 1, i - 1) \o SubSeq(requests, i + 1, Len(requests))

\* generateContextualQuestions, up to its fetch
ClickGenerateQuestions ==
    LET originalStatement == Trim(fields.originalStatement)
        wordLimitErrors == validateWordLimits(fields, answers)
        rejected(message, details) ==
            /\ submissionResult' = showError(message, details)
            /\ disabled' = Enabled("questions")
            /\ UNCHANGED <<pending, issued>>
    IN  /\ display.basic
        /\ ~disabled["questions"]
        /\ IF originalStatement = <<>>
           THEN rejected("Please describe your accomplishment first.", <<>>)
           ELSE IF fields.impactType = <<>>
           THEN rejected("Please select the impact type.", <<>>)
           ELSE IF wordLimitErrors # <<>>
           THEN rejected("Please reduce text in the following fields:", wordLimitErrors)
           ELSE /\ issued < MaxRequests
                /\ disabled' = [disabled EXCEPT !["questions"] = TRUE]
                /\ pending' = [pending EXCEPT !["questions"] =
                      Append(@, Sent([originalStatement |-> JStr(originalStatement),
                                      impactType |-> JStr(fields.impactType),
                                      emailAppreciation |->
                                          JStr(Trim(fields.emailAppreciation))]))]
                /\ issued' = issued + 1
                /\ UNCHANGED submissionResult
        /\ UNCHANGED <<display, fields, contextualQuestions, answers,
                       currentPreviewData, promptVars, llm, hana, toggles, db, now>>
        /\ NoFetchSettles

\* generateStatementPreview, up to its fetch
ClickGenerateStatement ==
    LET wordLimitErrors == validateWordLimits(fields, answers)
    IN  /\ display.dynamic
        /\ ~disabled["statement"]
        /\ IF wordLimitErrors # <<>>
           THEN /\ submissionResult' =
                       showError("Please reduce text in the following fields:",
                                 wordLimitErrors)
                /\ disabled' = Enabled("statement")
                /\ UNCHANGED <<pending, issued>>
           ELSE /\ issued < MaxRequests
                /\ disabled' = [disabled EXCEPT !["statement"] = TRUE]
                /\ pending' = [pending EXCEPT !["statement"] =
                      Append(@, Sent(CollectFormData(fields, contextualQuestions,
                                                     answers)))]
                /\ issued' = issued + 1
                /\ UNCHANGED submissionResult
        /\ UNCHANGED <<display, fields, contextualQuestions, answers,
                       currentPreviewData, promptVars, llm, hana, toggles, db, now>>
        /\ NoFetchSettles

\* a faulty regenerateStatement that does not disable its button
ClickRegenerateLeavingTheButtonEnabled ==
    /\ display.preview
    /\ ~disabled["regenerate"]
    /\ currentPreviewData # JNull
    /\ pending' = [pending EXCEPT !["regenerate"] =
                      Append(@, Sent(currentPreviewData.formData))]
    /\ issued' = issued + 1
    /\ UNCHANGED <<display, fields, contextualQuestions, answers, disabled,
                   submissionResult, currentPreviewData, promptVars, llm, hana, toggles, db, now>>
    /\ NoFetchSettles

\* regenerateStatement, up to its fetch
ClickRegenerate ==
    /\ display.preview
    /\ ~disabled["regenerate"]
    /\ IF currentPreviewData = JNull
       THEN /\ submissionResult' =
                   showError("Failed to regenerate statement. Please try again.", <<>>)
            /\ disabled' = Enabled("regenerate")
            /\ UNCHANGED <<pending, issued>>
       ELSE /\ issued < MaxRequests
            /\ disabled' = [disabled EXCEPT !["regenerate"] = TRUE]
            /\ pending' = [pending EXCEPT !["regenerate"] =
                              Append(@, Sent(currentPreviewData.formData))]
            /\ issued' = issued + 1
            /\ UNCHANGED submissionResult
    /\ UNCHANGED <<display, fields, contextualQuestions, answers,
                   currentPreviewData, promptVars, llm, hana, toggles, db, now>>
    /\ NoFetchSettles

\* handleFormSubmission, up to its fetch
ClickSubmit ==
    /\ display.preview
    /\ ~disabled["submit"]
    /\ IF currentPreviewData = JNull
       THEN /\ submissionResult' =
                   showError("Failed to submit accomplishment. Please try again.", <<>>)
            /\ disabled' = Enabled("submit")
            /\ UNCHANGED <<pending, issued>>
       ELSE /\ issued < MaxRequests
            /\ disabled' = [disabled EXCEPT !["submit"] = TRUE]
            /\ pending' = [pending EXCEPT !["submit"] =
                              Append(@, Sent(finalData(currentPreviewData)))]
            /\ issued' = issued + 1
            /\ UNCHANGED submissionResult
    /\ UNCHANGED <<display, fields, contextualQuestions, answers,
                   currentPreviewData, promptVars, llm, hana, toggles, db, now>>
    /\ NoFetchSettles

\* how a fetch settles: rejected (the request never arrives), or with the
\* answer the endpoint gives
Rejected == [arrived |-> FALSE, exchange |-> NoRequest]
Answered(exchange) == [arrived |-> TRUE, exchange |-> exchange]

Succeeded(settled) == settled.arrived /\ settled.exchange.success

Outcome(settled) ==
    IF ~settled.arrived THEN "network"
    ELSE IF settled.exchange.success THEN "success" ELSE "failure"

\* the text a template literal makes of a value
Interpolate(x) == IF x.t = "null" THEN <<"null">> ELSE x.v

\* the fetch of the i-th waiting invocation of a handler settles
FetchSettles(control, i, settled) ==
    /\ i \in 1..Len(pending[control])
    /\ pending[control][i].phase = "sent"
    /\ handled' = [control |-> control, outcome |-> Outcome(settled)]
    /\ api' = settled.exchange

\* a faulty end of a handler that lacks the finally block
FinishWithoutFinally(control, i) ==
    /\ pending' = [pending EXCEPT ![control] = Without(@, i)]
    /\ disabled' = disabled

\* the end of a handler, with its finally block
Finish(control, i) ==
    /\ pending' = [pending EXCEPT ![control] = Without(@, i)]
    /\ disabled' = Enabled(control)

\* a faulty displayContextualQuestions that keeps what the boxes held
displayContextualQuestionsKeepingAnswers(questions, boxes) ==
    [labels |-> [k \in 1..Len(questions) |-> Interpolate(questions[k])],
     boxes |-> [k \in 1..Len(questions) |-> IF k <= Len(boxes) THEN boxes[k] ELSE <<>>]]

\* displayContextualQuestions: the innerHTML of the container is replaced by
\* one label and one empty textarea per question
displayContextualQuestions(questions, boxes) ==
    [labels |-> [k \in 1..Len(questions) |-> Interpolate(questions[k])],
     boxes |-> [k \in 1..Len(questions) |-> <<>>]]

\* generateContextualQuestions from its fetch on: the endpoint answers, then
\* displayContextualQuestions and showDynamicFields, or the error
QuestionsResponse(i, arrives, backend, order, count) ==
    /\ i \in 1..Len(pending["questions"])
    /\ \E settled \in
             {IF arrives
              THEN Answered(QuestionsGenerateHandler(prompts,
                                pending["questions"][i].body, backend, order, count))
              ELSE Rejected} :
          /\ FetchSettles("questions", i, settled)
          /\ Finish("questions", i)
          /\ IF Succeeded(settled)
             THEN /\ contextualQuestions' =
                         displayContextualQuestions(settled.exchange.data, answers).labels
                  /\ answers' =
                         displayContextualQuestions(settled.exchange.data, answers).boxes
                  /\ display' = [display EXCEPT !.basic = FALSE, !.dynamic = TRUE]
                  /\ UNCHANGED submissionResult
             ELSE /\ submissionResult' =
                         showError("Failed to generate contextual questions. Please try again.",
                                   <<>>)
                  /\ UNCHANGED <<contextualQuestions, answers, display>>
    /\ UNCHANGED <<fields, currentPreviewData, issued, promptVars, llm, hana, toggles, db, now>>

\* generateStatementPreview from its fetch on: the endpoint answers, then
\* displayStatementPreview and showPreviewFields, or the error
StatementResponse(i, arrives, backend) ==
    /\ i \in 1..Len(pending["statement"])
    /\ \E settled \in
             {IF arrives
              THEN Answered(AccomplishmentGenerateHandler(prompts,
                                pending["statement"][i].body, backend))
              ELSE Rejected} :
          /\ FetchSettles("statement", i, settled)
          /\ Finish("statement", i)
          /\ IF Succeeded(settled)
             THEN /\ currentPreviewData' =
                         displayStatementPreview(settled.exchange.data,
                                                 pending["statement"][i].body)
                  /\ display' = PreviewOnly
                  /\ UNCHANGED submissionResult
             ELSE /\ submissionResult' =
                         showError("Failed to generate statement. Please try again.", <<>>)
                  /\ UNCHANGED <<currentPreviewData, display>>
    /\ UNCHANGED <<fields, contextualQuestions, answers, issued, promptVars, llm, hana,
                   toggles, db, now>>

\* regenerateStatement from its fetch on: the endpoint answers, then
\* displayStatementPreview, or the error
RegenerateResponse(i, arrives, backend) ==
    /\ i \in 1..Len(pending["regenerate"])
    /\ \E settled \in
             {IF arrives
              THEN Answered(AccomplishmentGenerateHandler(prompts,
                                pending["regenerate"][i].body, backend))
              ELSE Rejected} :
          /\ FetchSettles("regenerate", i, settled)
          /\ Finish("regenerate", i)
          /\ IF Succeeded(settled)
             THEN /\ currentPreviewData' =
                         displayStatementPreview(settled.exchange.data,
                                                 pending["regenerate"][i].body)
                  /\ UNCHANGED submissionResult
             ELSE /\ submissionResult' =
                         showError("Failed to regenerate statement. Please try again.", <<>>)
                  /\ UNCHANGED currentPreviewData
    /\ UNCHANGED <<display, fields, contextualQuestions, answers, issued,
                   promptVars, llm, hana, toggles, db, now>>

\* handleFormSubmission from its fetch on: the endpoint answers.  On success
\* showSubmissionResult and clearForm run and the handler waits for
\* loadUserAccomplishments with the button still disabled; otherwise the
\* error shows and the handler ends.
SubmitResponse(i, arrives, backend, dbOk) ==
    /\ i \in 1..Len(pending["submit"])
    /\ \E settled \in
             {IF arrives
              THEN Answered(AccomplishmentsHandler(prompts, db, now,
                                pending["submit"][i].body, backend, dbOk))
              ELSE Rejected} :
          /\ FetchSettles("submit", i, settled)
          /\ db' = IF arrives THEN RowsAfter(db, settled.exchange) ELSE db
          /\ IF Succeeded(settled)
             THEN /\ submissionResult' =
                         Hide(showSubmissionResult(settled.exchange.data))
                  /\ fields' = EmptyFields
                  /\ display' = BasicOnly
                  /\ contextualQuestions' = <<>>
                  /\ answers' = <<>>
                  /\ currentPreviewData' = JNull
                  /\ pending' = [pending EXCEPT !["submit"][i] =
                                    [phase |-> "loading", body |-> @.body]]
                  /\ UNCHANGED disabled
             ELSE /\ submissionResult' =
                         showError("Failed to submit accomplishment. Please try again.",
                                   <<>>)
                  /\ Finish("submit", i)
                  /\ UNCHANGED <<fields, display, contextualQuestions, answers,
                                 currentPreviewData>>
    /\ UNCHANGED <<issued, promptVars, llm, hana, toggles, now>>

\* loadUserAccomplishments has settled, whichever way: the finally block of
\* handleFormSubmission runs
UserAccomplishmentsLoaded(i) ==
    /\ i \in 1..Len(pending["submit"])
    /\ pending["submit"][i].phase = "loading"
    /\ Finish("submit", i)
    /\ NoFetchSettles
    /\ UNCHANGED <<display, fields, contextualQuestions, answers, currentPreviewData,
                   submissionResult, issued, promptVars, llm, hana, toggles, db, now>>

\* goBackToBasicFields, from the button of dynamic-fields
GoBackToBasicFields ==
    /\ display.dynamic
    /\ display' = BasicOnly
    /\ UNCHANGED <<fields, contextualQuestions, answers, currentPreviewData, disabled,
                   pending, submissionResult, issued, promptVars, llm, hana, toggles, db, now>>
    /\ NoFetchSettles

\* goBackToDynamicFields, from the button of preview-fields
GoBackToDynamicFields ==
    /\ display.preview
    /\ display' = [display EXCEPT !.preview = FALSE, !.dynamic = TRUE]
    /\ UNCHANGED <<fields, contextualQuestions, answers, currentPreviewData, disabled,
                   pending, submissionResult, issued, promptVars, llm, hana, toggles, db, now>>
    /\ NoFetchSettles

\* the timer showError and showSubmissionResult start hides the element
HideResult ==
    /\ submissionResult.display
    /\ submissionResult' = Hide(submissionResult)
    /\ UNCHANGED <<display, fields, contextualQuestions, answers, currentPreviewData,
                   disabled, pending, issued, promptVars, llm, hana, toggles, db, now>>
    /\ NoFetchSettles

\* the user fills in the basic inputs
EditBasicFields(form) ==
    /\ display.basic
    /\ form # fields
    /\ fields' = form
    /\ UNCHANGED <<display, contextualQuestions, answers, currentPreviewData, disabled,
                   pending, submissionResult, issued, promptVars, llm, hana, toggles, db, now>>
    /\ NoFetchSettles

\* the user fills in the textareas of the questions
AnswerQuestions(boxes) ==
    /\ display.dynamic
    /\ Len(boxes) = Len(contextualQuestions)
    /\ boxes # answers
    /\ answers' = boxes
    /\ UNCHANGED <<display, fields, contextualQuestions, currentPreviewData, disabled,
                   pending, submissionResult, issued, promptVars, llm, hana, toggles, db, now>>
    /\ NoFetchSettles

\* what the user types into the basic inputs
FieldChoices ==
    {[originalStatement |-> <<" ">>, impactType |-> <<"customer">>,
      emailAppreciation |-> <<>>],
     [originalStatement |-> Words(60), impactType |-> <<>>,
      emailAppreciation |-> <<>>],
     [originalStatement |-> Words(60), impactType |-> <<"customer">>,
      emailAppreciation |-> Words(61)],
     [originalStatement |-> Words(60), impactType |-> <<"customer">>,
      emailAppreciation |-> <<>>]}

\* what the user types into n answer boxes
AnswerChoices(n) ==
    {[k \in 1..n |-> <<>>],
     [k \in 1..n |-> IF k = 1 THEN <<" ", "a", " ", "b", "\n">>
                     ELSE IF k = 3 THEN <<"c", " ">> ELSE <<>>],
     [k \in 1..n |-> IF k = 2 THEN Words(61) ELSE <<>>]}

FormOrders == {<<1, 2, 3, 4, 5>>}
FormCounts == {3}
FormQuestionContents == {JsonArrayText(SubSeq(LlmQuestions, 1, 4))}
FormStatementContents == {<<"Ann", " ", "resolved", " ", "w.">>}
TokenFails == [tokenOk |-> FALSE, completionOk |-> FALSE, content |-> <<>>]

InitForm ==
    /\ promptsDir = FilesOf([id \in PromptIds |-> OrchestratorTemplate])
    /\ prompts = loadPrompts(promptsDir)
    /\ promptCall = [promptId |-> "accomplishment-generation", variables |-> <<>>]
    /\ built = NotCalled
    /\ validation = NotCalled
    /\ db = <<>>
    /\ now = 0
    /\ api = NoRequest
    /\ toggles = NoToggles
    /\ llm = NoCalls
    /\ hana = NotConnected
    /\ FormLoaded

\* a step of the user, of the network or of the server
FormStep ==
    \/ \E form \in FieldChoices : EditBasicFields(form)
    \/ \E boxes \in AnswerChoices(Len(contextualQuestions)) : AnswerQuestions(boxes)
    \/ ClickGenerateQuestions
    \/ ClickGenerateStatement
    \/ ClickRegenerate
    \/ ClickSubmit
    \/ GoBackToBasicFields
    \/ GoBackToDynamicFields
    \/ \E i \in 1..2, arrives \in BOOLEAN,
          backend \in {TokenFails} \cup Answering(FormQuestionContents),
          order \in FormOrders, count \in FormCounts :
           QuestionsResponse(i, arrives, backend, order, count)
    \/ \E i \in 1..2, arrives \in BOOLEAN,
          backend \in {TokenFails} \cup Answering(FormStatementContents) :
           StatementResponse(i, arrives, backend)
    \/ \E i \in 1..2, arrives \in BOOLEAN,
          backend \in {TokenFails} \cup Answering(FormStatementContents) :
           RegenerateResponse(i, arrives, backend)
    \/ \E i \in 1..2, arrives \in BOOLEAN, backend \in {TokenFails},
          dbOk \in BOOLEAN :
           SubmitResponse(i, arrives, backend, dbOk)
    \/ \E i \in 1..2 : UserAccomplishmentsLoaded(i)

\* A message goes away before anything else happens on the page: nothing
\* reads submission-result, so what follows does not depend on when its timer
\* fires.
NextForm ==
    \/ HideResult
    \/ ~submissionResult.display /\ FormStep

SpecForm == InitForm /\ [][NextForm]_vars

\* the fields of a valid draft, and the statement request made of it when
\* its three questions are left without an answer
ValidDraft ==
    [originalStatement |-> Words(60), impactType |-> <<"customer">>,
     emailAppreciation |-> <<>>]
DraftQuestions ==
    LET exchange == QuestionsGenerateHandler(prompts,
                        [originalStatement |-> JStr(Trim(ValidDraft.originalStatement)),
                         impactType |-> JStr(ValidDraft.impactType),
                         emailAppreciation |-> JStr(Trim(ValidDraft.emailAppreciation))],
                        TokenFails, <<1, 2, 3, 4, 5>>, 3)
    IN  [k \in 1..Len(exchange.data) |-> Interpolate(exchange.data[k])]
\* the page when the statement of that draft has just been generated and
\* shows in the preview section, after started fetches
PreviewShown(started) ==
    /\ display = PreviewOnly
    /\ fields = ValidDraft
    /\ contextualQuestions = DraftQuestions
    /\ answers = [k \in 1..Len(contextualQuestions) |-> <<>>]
    /\ api = AccomplishmentGenerateHandler(prompts,
                 CollectFormData(fields, contextualQuestions, answers), TokenFails)
    /\ currentPreviewData = displayStatementPreview(api.data, api.request)
    /\ disabled = [c \in Controls |-> FALSE]
    /\ pending = [c \in Controls |-> <<>>]
    /\ submissionResult = HiddenResult
    /\ handled = [control |-> "statement", outcome |-> "success"]
    /\ issued = started

\* The page from the preview of a generated statement on; the fetches are
\* counted from there.
InitPreview ==
    /\ promptsDir = FilesOf([id \in PromptIds |-> OrchestratorTemplate])
    /\ prompts = loadPrompts(promptsDir)
    /\ promptCall = [promptId |-> "accomplishment-generation", variables |-> <<>>]
    /\ built = NotCalled
    /\ validation = NotCalled
    /\ db = <<>>
    /\ now = 0
    /\ toggles = NoToggles
    /\ llm = NoCalls
    /\ hana = NotConnected
    /\ PreviewShown(0)

SpecPreview == InitPreview /\ [][NextForm]_vars

-----------------------------------------------------------------------------
(* Properties                                                               *)

\* the cases in which the LLM path of a generation cannot deliver
TemplateMissing(promptId) == promptId \notin DOMAIN prompts
BackendFailed(backend) == ~backend.tokenOk \/ ~backend.completionOk

\* the answer of the model is a JSON array of 3 to 5 elements
UsableQuestionAnswer(backend) ==
    /\ ~BackendFailed(backend)
    /\ ~JsonParse(backend.content).raised
    /\ JsonParse(backend.content).value.t = "array"
    /\ Len(JsonParse(backend.content).value.items) \in 3..5

C14_EveryQuestionIsNonEmptyString ==
    api.endpoint = "questions" =>
        \A i \in 1..Len(api.ai.value) :
            api.ai.value[i].t = "string" /\ api.ai.value[i].v # <<>>

\* C15: generating a shareable post never raises to the caller: when the LLM
\* call fails the generation returns fallback content, a non-empty string.
C15_ShareablePostNeverRaises ==
    api.endpoint = "generateWithPrompt" =>
        /\ ~api.ai.raised
        /\ api.ai.value # <<>>

\* C23: increments of a counter that do not overlap in time all count: as
\* long as no congratulate (vote) request on a record arrived while another
\* one on the same record was unanswered, the record's counter equals the
\* number of such requests answered with success.  (Overlapping ones can
\* lose an update: C23_Witness.)
C23_SeparateIncrementsAllCount ==
    \A kind \in ToggleKinds, n \in 1..Len(db) :
        (db[n].id \in ToggleIds /\ ~toggles.overlapped[kind][db[n].id]) =>
            db[n][CounterOf(kind)] = toggles.succeeded[kind][db[n].id]

\* two overlapping requests on one counter were both answered with success
\* and the counter stands at 1, while a request that overlapped with no
\* other on its counter raised that one by 1
C23_Witness ==
    /\ toggles.inFlight = EmptyBag
    /\ \E kind \in ToggleKinds, n \in 1..Len(db) :
          /\ db[n].id \in ToggleIds
          /\ toggles.overlapped[kind][db[n].id]
          /\ toggles.succeeded[kind][db[n].id] = 2
          /\ db[n][CounterOf(kind)] = 1
    /\ \E kind \in ToggleKinds, n \in 1..Len(db) :
          /\ db[n].id \in ToggleIds
          /\ ~toggles.overlapped[kind][db[n].id]
          /\ toggles.succeeded[kind][db[n].id] = 1
          /\ db[n][CounterOf(kind)] = 1

\* what a step leaves of the stored records: every record stays, and one
\* that differs afterwards is the record a congratulate or vote request
\* answered with success in this step addressed, and differs in the counter
\* of that request only
OnlyTheAddressedCounterChanges ==
    /\ Len(db') >= Len(db)
    /\ \A n \in 1..Len(db) :
          db'[n] # db[n] =>
            /\ api'.endpoint \in ToggleKinds
            /\ api'.success
            /\ api'.request = db[n].id
            /\ db'[n] = [db[n] EXCEPT ![CounterOf(api'.endpoint)] =
                                          db'[n][CounterOf(api'.endpoint)]]

\* C24 as stated: a stored record changes in the addressed counter of a
\* congratulate or vote request only (generation, read, filter and save
\* requests change no stored record), and no counter ever decreases.
C24_OnlyCountersChangeAndNeverDecrease ==
    [][/\ OnlyTheAddressedCounterChanges
       /\ \A n \in 1..Len(db), kind \in ToggleKinds :
             db'[n][CounterOf(kind)] >= db[n][CounterOf(kind)]]_vars

\* C24, amended: a stored record changes in the addressed counter of a
\* congratulate or vote request only, and a counter decreases only when
\* requests on it overlapped (the late write of a count read earlier).
C24_OnlyCountersChangeAndDecreaseOnlyByOverlap ==
    [][/\ OnlyTheAddressedCounterChanges
       /\ \A n \in 1..Len(db), kind \in ToggleKinds :
             db'[n][CounterOf(kind)] < db[n][CounterOf(kind)] =>
                /\ db[n].id \in ToggleIds
                /\ toggles.overlapped[kind][db[n].id]]_vars

\* a vote request on one of two stored records has just been answered with
\* success: the votes of that record stand at 1, everything else as saved
C24_Witness ==
    /\ Len(db) = 2
    /\ api.endpoint = "vote" /\ api.success
    /\ \E n \in 1..2 :
          /\ api.request = db[n].id
          /\ db[n].votesCount = 1 /\ db[n].congratulationsCount = 0
          /\ db[3 - n].votesCount = 0 /\ db[3 - n].congratulationsCount = 0

\* C25: a submission that reaches saveAccomplishment carries the id and the
\* creation time the server assigned at that moment, whatever the client
\* sent; the id differs from the id of every record stored before; and the
\* record, once stored, has both counters at 0.
C25_FreshServerAssignedId ==
    [][(api'.endpoint = "save" /\ api'.save.attempted) =>
          /\ api'.save.accomplishment.id = now
          /\ api'.save.accomplishment.createdAt = now
          /\ \A n \in 1..Len(db) : db[n].id # api'.save.accomplishment.id
          /\ api'.success =>
                /\ Len(db') = Len(db) + 1
                /\ db'[Len(db')].id = api'.save.accomplishment.id
                /\ db'[Len(db')].congratulationsCount = 0
                /\ db'[Len(db')].votesCount = 0]_vars

\* C26: no congratulate or vote request sent with the email of the owner of
\* the addressed record raises a counter of that record (the owner's feed
\* offers them no enabled control for it).
C26_OwnerNeverRaisesOwnCounters ==
    [][\A n \in 1..Len(db) :
          (/\ api'.endpoint \in ToggleKinds
           /\ api'.request = db[n].id
           /\ api'.userEmail = JStr(db[n].userId)) => db'[n] = db[n]]_vars

\* C27: the fallback answer is fixed by the input: the questions a
\* questions request is answered with on the fallback path are the ones the
\* fallback gives for that request whatever the random draws, and the
\* statement a statement request is answered with on the fallback path is
\* the one composed from the request.
C27_FallbackAnswerFixedByInput ==
    /\ (api.endpoint = "questions" /\ api.ai.path = "fallback") =>
          \A order \in Orders, count \in Counts :
              api.data = generateMockQuestions(api.request, order, count)
    /\ (api.endpoint = "generate" /\ api.ai.path = "fallback") =>
          api.data = generateMockResponse(api.request)

\* the completion of a statement request came back: the orchestrator had a
\* prompt, a token and an answered completion request
CompletionReceived ==
    /\ api.endpoint = "generate"
    /\ ~buildSAPAIPrompt(prompts, api.request).raised
    /\ api.backend.tokenOk /\ api.backend.completionOk

PoolFor(impactType) ==
    IF impactType = JStr(<<"customer">>) THEN customerQuestions
    ELSE IF impactType = JStr(<<"team">>) THEN teamQuestions
    ELSE genericQuestions

QuotedExcerpt(appreciation) ==
    <<"\"">>
    \o (IF Len(appreciation) > MaxQuoteLength
        THEN SubSeq(appreciation, 1, KeptQuoteLength) \o <<".", ".", ".">>
        ELSE appreciation)
    \o <<"\"">>

\* t occurs in s
OccursIn(t, s) ==
    \E i \in 0..(Len(s) - Len(t)) : SubSeq(s, i + 1, i + Len(t)) = t

\* C30: the fallback statement of a draft with a non-empty appreciation
\* text holds the quoted excerpt of that text, whatever the impact type.
C30_FallbackStatementQuotesAppreciation ==
    (/\ api.endpoint = "generate" /\ api.ai.path = "fallback"
     /\ api.request.responses.emailAppreciation # <<>>) =>
        OccursIn(QuotedExcerpt(api.request.responses.emailAppreciation), api.data)

\* C31: every call of the LLM service sends one token request first and at
\* most one completion request after it; the completion request is sent
\* only once the call's own token request was answered with success, and it
\* carries the token of that answer, also while other calls are under way;
\* a call whose token or completion request failed sends nothing more.
C31_OwnTokenThenAtMostOneCompletion ==
    \A c \in 1..Len(llm) :
        LET requests == llm[c].requests
        IN  /\ Len(requests) \in {1, 2}
            /\ requests[1] = TokenRequest
            /\ llm[c].pc = "token" => Len(requests) = 1
            /\ Len(requests) = 2 =>
                  /\ requests[2].kind = "completion"
                  /\ llm[c].auth = c
                  /\ requests[2].bearer = c
            /\ (llm[c].pc = "done" /\ llm[c].auth = 0) => Len(requests) = 1

\* three calls under way at once: the second one acquired its token first,
\* the first one later, the third one failed to; the completion request of
\* the first one failed and nothing followed it
C31_Witness ==
    /\ Len(llm) = 3
    /\ llm[1].pc = "done" /\ llm[1].path = "fallback" /\ Len(llm[1].requests) = 2
    /\ llm[2].pc = "completion" /\ llm[2].requests[2].bearer = 2
    /\ llm[3].pc = "done" /\ Len(llm[3].requests) = 1

\* the prompt the orchestrator resolved for the request of the last exchange
ResolvedPrompt ==
    IF api.endpoint = "generate"
    THEN buildSAPAIPrompt(prompts, api.request)
    ELSE buildPrompt(prompts, "contextual-questions-generation",
                     [originalStatement |-> api.request.originalStatement,
                      impactType |->
                          OrElse(api.request.impactType, <<"Not", " ", "specified">>),
                      emailAppreciation |->
                          OrElse(api.request.emailAppreciation, <<"None", " ", "provided">>)])

\* a generation request for which a completion request was sent
CompletionSent ==
    /\ api.endpoint \in {"generate", "questions"}
    /\ Len(api.ai.requests) = 2

\* the user message of the completion request: context, task and format of
\* the resolved prompt, joined in that order by one blank line each, with
\* temperature 0.82 and two messages in all
UserMessageAndTemperature ==
    LET sent == api.ai.requests[2]
        prompt == ResolvedPrompt.value
    IN  /\ sent.kind = "completion"
        /\ Len(sent.messages) = 2
        /\ sent.messages[1].role = "system"
        /\ sent.messages[2].role = "user"
        /\ sent.messages[2].content =
              prompt.context \o <<"\n", "\n">> \o prompt.task \o <<"\n", "\n">> \o prompt.format
        /\ sent.temperature = "0.82"

\* the statement answered on the LLM path is the text of the completion
FirstCompletionIsTheResult ==
    (api.endpoint = "generate" /\ api.ai.path = "llm") => api.data = api.backend.content

C33_GenerationLeavesRecordsAndTemplates ==
    [][(api = NoRequest /\ api'.endpoint \in {"questions", "generate"}) =>
          /\ db' = db
          /\ prompts' = prompts
          /\ promptsDir' = promptsDir]_vars

\* a statement request was answered by the fallback while a counter was
\* raised and a congratulate or vote request was waiting for the database
C33_Witness ==
    /\ api.endpoint = "generate"
    /\ api.ai.path = "fallback"
    /\ api.success
    /\ \E i \in DOMAIN db : db[i].congratulationsCount > 0
    /\ toggles.inFlight # EmptyBag

\* the record a congratulate or vote request addresses is stored
Addressed(id) == \E n \in 1..Len(db) : db[n].id = id

\* C38: a congratulate or vote request without userEmail is answered with
\* status 400 and never reaches the database; one whose id matches no record
\* is answered with an error and never reaches its UPDATE; the step that
\* answers either of them leaves every stored record and counter unchanged.
C38_UnknownIdAndMissingEmailWriteNothing ==
    /\ [](\A request \in BagToSet(toggles.inFlight) :
             /\ Truthy(request.userEmail)
             /\ request.pc = "update" => Addressed(request.id))
    /\ [][(api = NoRequest /\ api'.endpoint \in ToggleKinds) =>
             /\ ~Truthy(api'.userEmail) =>
                   /\ api'.status = 400 /\ ~api'.success
                   /\ toggles'.inFlight = toggles.inFlight
                   /\ db' = db
             /\ ~Addressed(api'.request) =>
                   /\ api'.status \in {400, 500} /\ ~api'.success
                   /\ db' = db]_<<api, db, toggles>>

\* a congratulate request with an email on an id that matches no record was
\* answered with status 500, after a counter of a stored record was raised
C38_Witness ==
    /\ api.endpoint = "congratulations"
    /\ api.request = 2
    /\ ~Addressed(2)
    /\ Truthy(api.userEmail)
    /\ api.status = 500
    /\ \E n \in 1..Len(db) : db[n].congratulationsCount > 0

\* C39: the database layer holds at most one connection: of the connections
\* created, at most one is connecting or connected at any time, whatever
\* requests arrive while a connection attempt is in progress, and a request
\* that finds the connection connected creates none.
C39_AtMostOneConnection ==
    /\ [](Cardinality({c \in 1..Len(hana.created) :
                           hana.created[c] # "disconnected"}) <= 1)
    /\ [][Connected(hana) => hana'.created = hana.created]_hana

C3_FallbackStatementAtMost100Words ==
    (api.endpoint = "generate" /\ api.ai.path = "fallback") =>
        WordCount(api.data) <= MaxStatementWords

\* C8: every record handed to saveAccomplishment, and every stored row, has
\* a non-empty aiGeneratedStatement; a request that carries none gets one
\* generated before the save.
C8_SavedStatementNonEmpty ==
    /\ \A i \in 1..Len(db) : db[i].aiGeneratedStatement # <<>>
    /\ (api.endpoint = "save" /\ api.save.attempted) =>
          /\ api.save.accomplishment.aiGeneratedStatement # <<>>
          /\ ~Truthy(api.request.aiGeneratedStatement) =>
                /\ api.ai.path \in {"llm", "fallback"}
                /\ api.save.accomplishment.aiGeneratedStatement = api.ai.value

\* a request without a statement was saved with a generated one
C8_Witness ==
    /\ api.endpoint = "save"
    /\ api.request.aiGeneratedStatement = JStr(<<>>)
    /\ api.success
    /\ Len(db) > 0
    /\ db[Len(db)].aiGeneratedStatement = api.ai.value
    /\ api.ai.path = "fallback"

\* C9: buildPrompt returns the template's system, task and format and a
\* trimmed context, and leaves the template store and the caller's variable
\* map as they were.
C9_BuildPromptKeepsSystemTaskFormat ==
    [][BuildPrompt =>
        /\ prompts' = prompts
        /\ promptCall' = promptCall
        /\ promptCall.promptId \in DOMAIN prompts =>
              /\ ~built'.result.raised
              /\ built'.result.value.system = prompts[promptCall.promptId].system
              /\ built'.result.value.task = prompts[promptCall.promptId].task
              /\ built'.result.value.format = prompts[promptCall.promptId].format
              /\ built'.result.value.context = Trim(built'.result.value.context)]_vars

\* a prompt was built from a template with a substituted variable
C9_Witness ==
    /\ built # NotCalled
    /\ ~built.result.raised
    /\ Len(prompts[promptCall.promptId].variables) = 2
    /\ "v" \in {built.result.value.context[i] :
                    i \in 1..Len(built.result.value.context)}
    /\ built.result.value.task = <<"T">>

WellFormed(file) ==
    /\ file.content.parses
    /\ {"system", "task", "format"} \subseteq DOMAIN file.content.value

\* C16: after the load, every well-formed template file of the directory is
\* available under its name, and a malformed one (unparseable, or without
\* system, task or format) is not loaded.
C16_MalformedTemplateSkipped ==
    \A i \in 1..Len(promptsDir) :
        promptsDir[i].ext = ".json" =>
            IF WellFormed(promptsDir[i])
            THEN /\ promptsDir[i].name \in DOMAIN prompts
                 /\ prompts[promptsDir[i].name] = promptsDir[i].content.value
            ELSE promptsDir[i].name \notin DOMAIN prompts

\* C37: for every template and variable map, validatePromptVariables
\* reports valid exactly when buildPrompt resolves every required variable
\* of the template to a non-empty value.
C37_ValidateAgreesWithBuild ==
    (built.called /\ ~built.result.raised /\ validation # NotCalled) =>
        (validation.result.valid <=>
            \A i \in 1..Len(prompts[promptCall.promptId].variables) :
                prompts[promptCall.promptId].variables[i].required =>
                    built.processedVars[i].value # <<>>)

\* the declared variables of the template of the last buildPrompt call, and
\* the value a caller supplied for the i-th of them
DeclaredVariables ==
    IF built.called /\ ~built.result.raised
    THEN prompts[promptCall.promptId].variables ELSE <<>>
Supplied(i) == Lookup(promptCall.variables, DeclaredVariables[i].key)

\* C12 as stated: the resolved value of a declared variable is the supplied
\* value when non-empty, else the declared default when one is present, else
\* the empty string, whether the variable is required or not.
C12_ResolvedValueAsStated ==
    (built.called /\ ~built.result.raised) =>
        /\ Len(built.processedVars) = Len(DeclaredVariables)
        /\ \A i \in 1..Len(DeclaredVariables) :
              /\ built.processedVars[i].key = DeclaredVariables[i].key
              /\ built.processedVars[i].value =
                    IF Supplied(i).t = "string" /\ Supplied(i).v # <<>>
                    THEN Supplied(i).v
                    ELSE IF DeclaredVariables[i].default.t = "string"
                    THEN DeclaredVariables[i].default.v
                    ELSE <<>>

\* C12, amended: the resolved value of a declared variable is the supplied
\* value when non-empty, else the declared default when it is a non-empty
\* string, else "Not specified" when the variable is not required and the
\* empty string when it is required.
C12_ResolvedValue ==
    (built.called /\ ~built.result.raised) =>
        /\ Len(built.processedVars) = Len(DeclaredVariables)
        /\ \A i \in 1..Len(DeclaredVariables) :
              /\ built.processedVars[i].key = DeclaredVariables[i].key
              /\ built.processedVars[i].value =
                    IF Supplied(i).t = "string" /\ Supplied(i).v # <<>>
                    THEN Supplied(i).v
                    ELSE IF DeclaredVariables[i].default.t = "string"
                            /\ DeclaredVariables[i].default.v # <<>>
                    THEN DeclaredVariables[i].default.v
                    ELSE IF DeclaredVariables[i].required THEN <<>>
                    ELSE <<"Not", " ", "specified">>

\* a prompt was built with a supplied value, and with an optional variable
\* that had neither a value nor a default
C12_Witness ==
    /\ built.called
    /\ ~built.result.raised
    /\ Len(DeclaredVariables) = 2
    /\ Supplied(1) = JStr(<<"v">>)
    /\ built.processedVars[1].value = <<"v">>
    /\ ~DeclaredVariables[2].required
    /\ DeclaredVariables[2].default = JUndefined
    /\ Supplied(2) = JUndefined
    /\ built.processedVars[2].value = <<"Not", " ", "specified">>

\* the resolved value of the declared variable whose placeholder an atom of
\* the context template is, or the atom itself when it is none
SubstitutedAtom(atom) ==
    LET hits == {i \in 1..Len(built.processedVars) :
                    atom = Placeholder(built.processedVars[i].key)}
    IN  IF hits = {} THEN <<atom>>
        ELSE built.processedVars[CHOOSE i \in hits : TRUE].value

\* C13: the context buildPrompt returns is the context template with every
\* placeholder of a declared variable replaced by that variable's resolved
\* value and everything else, placeholders of undeclared names included,
\* left as it was (and the whole trimmed).
C13_PlaceholdersReplacedByResolvedValues ==
    (built.called /\ ~built.result.raised) =>
        built.result.value.context =
            Trim(Flatten([i \in 1..Len(prompts[promptCall.promptId].contextTemplate) |->
                    SubstitutedAtom(prompts[promptCall.promptId].contextTemplate[i])]))

\* the declared variables of the called template that are required, not
\* supplied and without a default
RequiredMissingNoDefault ==
    IF promptCall.promptId \in DOMAIN prompts
    THEN {i \in 1..Len(prompts[promptCall.promptId].variables) :
            LET c == prompts[promptCall.promptId].variables[i]
            IN  /\ c.required
                /\ IsMissing(Lookup(promptCall.variables, c.key))
                /\ ~Truthy(c.default)}
    ELSE {}

\* C10: validatePromptVariables reports exactly one error for each required
\* variable that is missing and has no default, and buildPrompt on the same
\* inputs succeeds and resolves each of them to the empty string.
C10_OneErrorPerMissingRequired ==
    (built # NotCalled /\ validation # NotCalled) =>
        \A i \in RequiredMissingNoDefault :
            LET key == prompts[promptCall.promptId].variables[i].key
                errors == validation.result.errors
            IN  /\ Cardinality({j \in 1..Len(errors) : errors[j].missing = key}) = 1
                /\ ~validation.result.valid
                /\ ~built.result.raised
                /\ built.processedVars[i].value = <<>>
                /\ (\A k \in DOMAIN promptCall.variables :
                        Placeholder(key) \notin
                            {promptCall.variables[k].v[j] :
                                j \in 1..Len(promptCall.variables[k].v)})
                      => Placeholder(key) \notin
                            {built.result.value.context[j] :
                                j \in 1..Len(built.result.value.context)}

\* two required variables without default were both missing
C10_Witness ==
    /\ built # NotCalled
    /\ validation # NotCalled
    /\ Cardinality(RequiredMissingNoDefault) = 2
    /\ Len(validation.result.errors) = 2
    /\ ~built.result.raised

\* the free-text fields of the form: the two basic textareas and the answers
FreeTexts == <<fields.originalStatement, fields.emailAppreciation>> \o answers

\* the precondition of 'generate questions' does not hold
PreconditionViolated ==
    \/ Trim(fields.originalStatement) = <<>>
    \/ fields.impactType = <<>>
    \/ \E k \in 1..Len(FreeTexts) : WordCount(FreeTexts[k]) > 60

\* C4: a click on 'generate questions' in the Basic stage with an empty
\* (after trimming) original statement, no impact type or a free-text field
\* of more than 60 words leaves the stage, the fields, the questions and the
\* answers as they are, shows an error and starts no fetch; with the
\* precondition met (a field of exactly 60 words, an empty optional field)
\* the click starts the fetch.
C4_InvalidDraftStaysInBasic ==
    [][ClickGenerateQuestions /\ display.basic =>
          IF PreconditionViolated
          THEN /\ display' = display
               /\ fields' = fields
               /\ contextualQuestions' = contextualQuestions
               /\ answers' = answers
               /\ currentPreviewData' = currentPreviewData
               /\ pending' = pending
               /\ issued' = issued
               /\ submissionResult'.display
               /\ submissionResult'.kind = "error"
          ELSE /\ Len(pending'["questions"]) = Len(pending["questions"]) + 1
               /\ issued' = issued + 1
               /\ fields' = fields]_vars

\* the click was refused for an appreciation of 61 words, beside an original
\* statement of exactly 60
C4_Witness ==
    /\ display = BasicOnly
    /\ WordCount(fields.originalStatement) = 60
    /\ fields.impactType # <<>>
    /\ WordCount(fields.emailAppreciation) = 61
    /\ submissionResult.display
    /\ submissionResult.message = "Please reduce text in the following fields:"
    /\ Len(submissionResult.details) = 1
    /\ submissionResult.details[1].wordCount = 61
    /\ \A c \in Controls : pending[c] = <<>>
    /\ issued = 0

\* C5: a control is disabled exactly while a handler of it waits on its
\* request, so at most one request of a control is outstanding, and the
\* control is enabled again once the request has settled in any way.
C5_ControlDisabledWhileItsRequestIsOut ==
    \A c \in Controls :
        /\ Len(pending[c]) <= 1
        /\ pending[c] # <<>> => disabled[c]
        /\ pending[c] = <<>> => ~disabled[c]

\* the save was refused by the server and the submit button is enabled again
C5_Witness ==
    /\ handled = [control |-> "submit", outcome |-> "failure"]
    /\ api.status = 500
    /\ pending["submit"] = <<>>
    /\ ~disabled["submit"]

\* C6: approving in Preview starts exactly one save request, which carries the
\* statement the preview shows and the draft data stored with it; the endpoint
\* hands that statement to the database unchanged and makes no call to the
\* orchestrator.
C6_ApprovalSavesTheShownStatement ==
    /\ [][ClickSubmit /\ currentPreviewData # JNull =>
            /\ Len(pending'["submit"]) = Len(pending["submit"]) + 1
            /\ LET body == pending'["submit"][Len(pending'["submit"])].body
               IN  /\ body.aiGeneratedStatement = JStr(currentPreviewData.statement)
                   /\ body.originalStatement = currentPreviewData.formData.originalStatement
                   /\ body.impactType = currentPreviewData.formData.impactType
                   /\ body.responses = currentPreviewData.formData.responses
                   /\ body.userId = currentPreviewData.formData.userId
                   /\ body.userName = currentPreviewData.formData.userName
            /\ \A c \in Controls \ {"submit"} : pending'[c] = pending[c]
            /\ issued' = issued + 1]_vars
    /\ [][handled'.control = "submit" /\ handled'.outcome # "network" =>
            /\ \E i \in 1..Len(pending["submit"]) :
                   pending["submit"][i].body = api'.request
            /\ api'.ai = NoAi
            /\ api'.save.attempted
            /\ api'.save.accomplishment.aiGeneratedStatement
                   = api'.request.aiGeneratedStatement.v
            /\ IF api'.success
               THEN /\ Len(db') = Len(db) + 1
                    /\ db'[Len(db')].aiGeneratedStatement
                           = api'.request.aiGeneratedStatement.v
                    /\ db'[Len(db')].additionalDetails
                           = api'.request.responses.additionalDetails
                    /\ db'[Len(db')].impactType = api'.request.impactType
                    /\ db'[Len(db')].originalStatement = api'.request.originalStatement
               ELSE db' = db]_vars

\* a statement generated from a draft with answered questions was approved
\* and is in the table as it was shown
C6_Witness ==
    /\ handled = [control |-> "submit", outcome |-> "success"]
    /\ api.endpoint = "save"
    /\ api.ai = NoAi
    /\ Len(db) = 1
    /\ db[1].aiGeneratedStatement = api.request.aiGeneratedStatement.v
    /\ db[1].aiGeneratedStatement # <<>>
    /\ db[1].additionalDetails # <<>>
    /\ db[1].impactType = <<"customer">>

\* a request of the form is out: a handler waits on its fetch
OutstandingRequest ==
    \E c \in Controls : \E i \in 1..Len(pending[c]) : pending[c][i].phase = "sent"

\* C17: while a request of the form is outstanding, a step that is not the
\* resolution of a request issues no request and leaves the visible stage
\* as it is.
C17_NothingElseWhileARequestIsOut ==
    [][(OutstandingRequest /\ handled' = NothingHandled) =>
          /\ display' = display
          /\ \A c \in Controls : Len(pending'[c]) <= Len(pending[c])]_vars

\* C18: the form advances one stage at a time.  Dynamic comes to show only
\* when a question generation started in Basic succeeds (or by going back from
\* Preview), Preview only when a statement generation started in Dynamic
\* succeeds, a save request is sent only from Preview, and no step leads from
\* Basic to Preview.
C18_OneStageAtATime ==
    [][/\ (~display.dynamic /\ display'.dynamic) =>
              \/ /\ handled' = [control |-> "questions", outcome |-> "success"]
                 /\ display.basic
              \/ /\ handled' = NothingHandled
                 /\ display.preview
       /\ (~display.preview /\ display'.preview) =>
              /\ handled' = [control |-> "statement", outcome |-> "success"]
              /\ display.dynamic
       /\ Len(pending'["submit"]) > Len(pending["submit"]) => display.preview
       /\ ~(display.basic /\ display'.preview)]_vars

\* C19: going back leaves the field values and the answers as they are, and
\* going back from Preview discards the generated preview: no statement is
\* stored afterwards.
C19_BackKeepsFieldsAndDiscardsPreview ==
    [][/\ (GoBackToBasicFields \/ GoBackToDynamicFields) =>
              /\ fields' = fields
              /\ contextualQuestions' = contextualQuestions
              /\ answers' = answers
       /\ GoBackToDynamicFields => currentPreviewData' = JNull]_vars

\* the blocks of the questions from the i-th on that have an answer, each
\* but the first after a blank line
RECURSIVE DetailsFrom(_, _, _, _)
DetailsFrom(labels, boxes, i, first) ==
    IF i > Len(labels) THEN <<>>
    ELSE IF Trim(boxes[i]) = <<>> THEN DetailsFrom(labels, boxes, i + 1, first)
    ELSE (IF first THEN <<>> ELSE <<"\n", "\n">>)
         \o <<"Q:", " ">> \o Trim(labels[i]) \o <<"\n", "A:", " ">> \o Trim(boxes[i])
         \o DetailsFrom(labels, boxes, i + 1, FALSE)

FormCleared ==
    /\ display = BasicOnly
    /\ fields = EmptyFields
    /\ contextualQuestions = <<>>
    /\ answers = <<>>
    /\ currentPreviewData = JNull

\* C21: when a save request has succeeded the form is back in Basic and
\* cleared, and the saved record shows in submission-result as confirmation.
C21_SavedRecordShownOnClearedForm ==
    [][handled' = [control |-> "submit", outcome |-> "success"] =>
          /\ FormCleared'
          /\ submissionResult'.display
          /\ submissionResult'.kind = "result"]_vars

C34_ExactlyOneSectionVisible ==
    Cardinality({section \in {"basic", "dynamic", "preview"} : display[section]}) = 1

\* C35: once a successful submission has cleared the stored preview data, it
\* stays empty until a statement generation succeeds: no other step, and in
\* particular no response to a regenerate request, fills it again.
C35_ClearedPreviewStaysEmpty ==
    [][(currentPreviewData = JNull /\ currentPreviewData' # JNull) =>
          handled' = [control |-> "statement", outcome |-> "success"]]_currentPreviewData

\* the steps in which a question generation of the form settles
QuestionsSucceeded == handled' = [control |-> "questions", outcome |-> "success"]
QuestionsFailed == handled'.control = "questions" /\ handled'.outcome # "success"

\* a successful generation puts one empty box per generated question in the
\* place of the boxes there were, and a failed one leaves questions, boxes
\* and answers as they are
GenerationReplacesBoxes ==
    /\ QuestionsSucceeded =>
          /\ Len(contextualQuestions') = Len(api'.data)
          /\ answers' = [k \in 1..Len(api'.data) |-> <<>>]
    /\ QuestionsFailed =>
          /\ contextualQuestions' = contextualQuestions
          /\ answers' = answers

\* C36 as stated: the number of answer boxes always equals the number of
\* questions of the latest successful question generation: a successful
\* generation replaces the boxes with empty ones, a failed one leaves boxes
\* and answers unchanged, and nothing else changes the number of boxes.
C36_BoxesOfTheLatestGeneration ==
    [][/\ GenerationReplacesBoxes
       /\ Len(answers') = Len(contextualQuestions')
       /\ Len(answers') # Len(answers) => QuestionsSucceeded
      ]_<<contextualQuestions, answers, handled>>

\* C36, amended: the same, except that a successful submission removes all
\* boxes.
C36_BoxesOfTheLatestGenerationUnlessCleared ==
    [][/\ GenerationReplacesBoxes
       /\ Len(answers') = Len(contextualQuestions')
       /\ Len(answers') # Len(answers) =>
             \/ QuestionsSucceeded
             \/ /\ handled' = [control |-> "submit", outcome |-> "success"]
                /\ answers' = <<>>
      ]_<<contextualQuestions, answers, handled>>

\* four empty boxes are in the place of the boxes whose answers went into
\* the statement of the preview: the user went back to Basic and generated
\* questions again
C36_Witness ==
    /\ handled = [control |-> "questions", outcome |-> "success"]
    /\ Len(api.data) = 4
    /\ answers = [k \in 1..4 |-> <<>>]
    /\ currentPreviewData # JNull
    /\ currentPreviewData.formData.responses.additionalDetails # <<>>

====
